---- MODULE Spec2Model ----
(***************************************************************************)
(* A model of the import-guard discovery server: the bounded TTL cache     *)
(* (cache.ts), the engine registry (engines/factory.ts), the tool-call     *)
(* adapter (index.ts) and validateImport of the five discovery engines.    *)
(*                                                                         *)
(* Strings are TLA+ strings; Len, \o and SubSeq act on them character by   *)
(* character, so substring tests, splits and the engines' extraction       *)
(* patterns are computed on the text itself.                               *)
(*                                                                         *)
(* Time is counted in units of the sweep interval (options.ttl / 2), so    *)
(* the default ttl is 2 units.                                             *)
(***************************************************************************)
EXTENDS Integers, Sequences, FiniteSets, TLC

VARIABLES
    cache,      \* CacheManager.cache: the Map, as the sequence of its entries in insertion order
    options,    \* CacheManager.options: [ttl, maxSize]
    now,        \* Date.now()
    sweepDue,   \* whether the setInterval callback is due (an interval has passed since it last ran)
    ret,        \* the last operation and what it returned
    fs,         \* the project directory and the installed tools the engines read
    inflight    \* the operations callers have started: each caller's position and outcome

vars == <<cache, options, now, sweepDue, ret, fs, inflight>>

\* ------------------------------------------------------------------ bounds
MaxTime == 3        \* the clock stops here
MaxSize == 2        \* the largest options.maxSize the cache is constructed with

MaxRecords == 4       \* the longest list of records handed to the ranking

\* ------------------------------------------------------------------ values
Null == "<null>"            \* JavaScript null
Undefined == "<undefined>"  \* JavaScript undefined

\* ------------------------------------------------------------------ strings
Includes(s, t) ==
    \E i \in 1..(Len(s) - Len(t) + 1) : SubSeq(s, i, i + Len(t) - 1) = t

StartsWith(s, t) == Len(s) >= Len(t) /\ SubSeq(s, 1, Len(t)) = t

\* ------------------------------------------------------------------ text helpers
Char(s, i) == SubSeq(s, i, i)

Letters == "abcdefghijklmnopqrstuvwxyzABCDEFGHIJKLMNOPQRSTUVWXYZ"
Lower == "abcdefghijklmnopqrstuvwxyz"
Upper == "ABCDEFGHIJKLMNOPQRSTUVWXYZ"
Digits == "0123456789"

WsChars == {" ", "\t", "\n"}                                            \* \s
QuoteChars == {"'", "\""}                                               \* ['"]
IdentStartChars == {Char(Letters, i) : i \in 1..Len(Letters)} \cup {"_"}    \* [a-zA-Z_]
IdentChars == IdentStartChars \cup {Char(Digits, i) : i \in 1..Len(Digits)}   \* [a-zA-Z0-9_]

\* membership of a character in a named character class
InClass(class, c) ==
    CASE class = "ws" -> c \in WsChars
      [] class = "ident" -> c \in IdentChars
      [] class = "notquote" -> c \notin QuoteChars
      [] class = "notdquote" -> c # "\""

\* the end of the longest run of characters of the class that starts at i
\* (the index after its last character; i itself when the run is empty)
SpanEnd(s, i, class) ==
    CHOOSE j \in i..(Len(s) + 1) :
        /\ \A k \in i..(j - 1) : InClass(class, Char(s, k))
        /\ j = Len(s) + 1 \/ ~InClass(class, Char(s, j))

LitAt(s, i, lit) == i >= 1 /\ i + Len(lit) - 1 <= Len(s) /\ SubSeq(s, i, i + Len(lit) - 1) = lit

\* the first index at which sep occurs in s, or 0
IndexOf(s, sep) ==
    IF \E i \in 1..Len(s) : LitAt(s, i, sep)
    THEN CHOOSE i \in 1..Len(s) : LitAt(s, i, sep) /\ \A j \in 1..(i - 1) : ~LitAt(s, j, sep)
    ELSE 0

\* String.prototype.split(sep) for a non-empty separator
RECURSIVE Split(_, _)
RECURSIVE SplitAt(_, _, _)
Split(s, sep) == SplitAt(s, sep, IndexOf(s, sep))

SplitAt(s, sep, i) ==
    IF i = 0 THEN <<s>>
    ELSE <<SubSeq(s, 1, i - 1)>> \o Split(SubSeq(s, i + Len(sep), Len(s)), sep)

\* Array.prototype.join(sep)
RECURSIVE Join(_, _)
Join(parts, sep) ==
    IF Len(parts) = 0 THEN ""
    ELSE IF Len(parts) = 1 THEN parts[1]
    ELSE parts[1] \o sep \o Join(Tail(parts), sep)

\* one character in lower case
LowerChar(c, i) == IF i = 0 THEN c ELSE Char(Lower, i)

\* String.prototype.toLowerCase() on ASCII text
RECURSIVE ToLowerCase(_)
ToLowerCase(s) ==
    IF s = "" THEN ""
    ELSE LowerChar(Char(s, 1), IndexOf(Upper, Char(s, 1))) \o ToLowerCase(SubSeq(s, 2, Len(s)))

\* Array.prototype.slice(0, n)
Slice(q, n) == SubSeq(q, 1, IF Len(q) < n THEN Len(q) ELSE n)

SeqToSet(q) == {q[i] : i \in 1..Len(q)}

\* x || y on strings and null
OrElse(x, y) == IF x = "" \/ x = Null \/ x = Undefined THEN y ELSE x

\* the first of two pattern results that is a match
First(a, b) == IF a # Null THEN a ELSE b

\* the text from a up to b, where b = 0 says there is none
Capture(s, a, b) == IF b = 0 THEN Null ELSE SubSeq(s, a, b - 1)

\* the end of an identifier [a-zA-Z_][a-zA-Z0-9_]* starting at i; 0 when none starts there
IdentEnd(s, i) ==
    IF i >= 1 /\ i <= Len(s) /\ Char(s, i) \in IdentStartChars THEN SpanEnd(s, i + 1, "ident") ELSE 0

\* the end of ident(?:SEPident)* starting at i, matched greedily; 0 when none starts there
RECURSIVE PathFrom(_, _, _)
RECURSIVE PathMore(_, _, _, _)
PathFrom(s, j, sep) ==
    IF j = 0 THEN 0
    ELSE PathMore(s, j, IF LitAt(s, j, sep) THEN IdentEnd(s, j + Len(sep)) ELSE 0, sep)

PathMore(s, j, n, sep) == IF n = 0 THEN j ELSE PathFrom(s, n, sep)

PathEnd(s, i, sep) == PathFrom(s, IdentEnd(s, i), sep)

\* the end of \s+ starting at i; 0 when no whitespace starts there
WsEnd(s, i) ==
    IF i >= 1 /\ i <= Len(s) /\ Char(s, i) \in WsChars THEN SpanEnd(s, i, "ws") ELSE 0

\* ------------------------------------------------------------------ import-statement extraction
\* Each pattern operator gives the text of the pattern's last capture group, or
\* Null when the pattern does not match the statement. An index of 0 says that
\* the part of the pattern before it did not match.

\* the text between an opening quote at q and the closing quote at e
Between(s, q, e) == IF e > q + 1 /\ e <= Len(s) THEN SubSeq(s, q + 1, e - 1) ELSE Null

\* a quoted run  ['"]([^'"]+)['"]  whose opening quote is at q: the capture, or Null
QuotedAt(s, q) ==
    IF q >= 1 /\ q <= Len(s) /\ Char(s, q) \in QuoteChars
    THEN Between(s, q, SpanEnd(s, q + 1, "notquote"))
    ELSE Null

\* the capture of the leftmost match among <<start, capture>> pairs
Leftmost(hits) ==
    IF \A h \in hits : h[2] = Null THEN Null
    ELSE (CHOOSE h \in hits : h[2] # Null /\ \A g \in hits : g[2] = Null \/ g[1] >= h[1])[2]

\* \s+from\s+['"]([^'"]+)['"] with "from" expected at f
FromQuoted(s, f) == IF LitAt(s, f, "from") THEN QuotedAt(s, WsEnd(s, f + 4)) ELSE Null

\* /import\s+.*\s+from\s+['"]([^'"]+)['"]/ with "import" at i and its \s+ ending
\* at w: the pairs <<x, y>> where the first \s+ ends before x and the last \s+
\* starts at y
JsFromSplits(s, i, w) ==
    IF w = 0 THEN {}
    ELSE {p \in ((i + 7)..Len(s)) \X ((i + 7)..Len(s)) :
            /\ p[1] <= p[2]
            /\ p[1] <= w
            /\ \A k \in p[1]..(p[2] - 1) : Char(s, k) # "\n"
            /\ Char(s, p[2]) \in WsChars
            /\ FromQuoted(s, SpanEnd(s, p[2], "ws")) # Null}

\* greedy choice among the splits: the longest first \s+, then the longest .*
GreedySplit(V) ==
    IF V = {} THEN 0
    ELSE (CHOOSE p \in V : \A r \in V : r[1] < p[1] \/ (r[1] = p[1] /\ r[2] <= p[2]))[2]

\* the capture for the split whose last \s+ starts at y
JsFromCapture(s, y) == IF y = 0 THEN Null ELSE FromQuoted(s, SpanEnd(s, y, "ws"))

JsImportFromAt(s, i) ==
    IF LitAt(s, i, "import") THEN JsFromCapture(s, GreedySplit(JsFromSplits(s, i, WsEnd(s, i + 6))))
    ELSE Null

\* import ... from 'package'
JsImportFrom(s) == Leftmost({<<i, JsImportFromAt(s, i)>> : i \in 1..Len(s)})

\* ['"]([^'"]+)['"]\s*\) with the capture cap opening at q
JsCallClose(s, q, cap) ==
    IF cap = Null THEN Null
    ELSE IF LitAt(s, SpanEnd(s, q + Len(cap) + 2, "ws"), ")") THEN cap ELSE Null

JsCallArg(s, q) == JsCallClose(s, q, QuotedAt(s, q))

JsCallParen(s, j) == IF LitAt(s, j, "(") THEN JsCallArg(s, SpanEnd(s, j + 1, "ws")) ELSE Null

\* /kw\s*\(\s*['"]([^'"]+)['"]\s*\)/ with kw at i
JsCallAt(s, i, kw) ==
    IF LitAt(s, i, kw) THEN JsCallParen(s, SpanEnd(s, i + Len(kw), "ws")) ELSE Null

\* import('package') and require('package')
JsCall(s, kw) == Leftmost({<<i, JsCallAt(s, i, kw)>> : i \in 1..Len(s)})

\* the first of the three patterns that matches
JsMatch(s) == First(JsImportFrom(s), First(JsCall(s, "import"), JsCall(s, "require")))

\* the package name of a module path, scoped packages kept whole
JsPackageName(fullPath, parts) ==
    IF fullPath = Null THEN Null
    ELSE IF StartsWith(fullPath, "@")
         THEN IF Len(parts) >= 2 THEN parts[1] \o "/" \o parts[2] ELSE fullPath
         ELSE OrElse(parts[1], Null)

JsPackageOf(fullPath) == JsPackageName(fullPath, IF fullPath = Null THEN <<>> ELSE Split(fullPath, "/"))

\* JavaScriptDiscoveryEngine.extractPackageNameFromImport
ExtractJs(s) == JsPackageOf(JsMatch(s))

\* (ident(?:SEPident)*) expected at w
PathAt(s, w, sep) == IF w = 0 THEN Null ELSE Capture(s, w, PathEnd(s, w, sep))

\* /^kw\s+(ident(?:SEPident)*)/
KeywordPath(s, kw, sep) == IF LitAt(s, 1, kw) THEN PathAt(s, WsEnd(s, Len(kw) + 1), sep) ELSE Null

\* kw2\s+(ident(?:SEPident)*) with kw2 expected at w
Keyword2At(s, w, kw2, sep) ==
    IF w = 0 \/ ~LitAt(s, w, kw2) THEN Null ELSE PathAt(s, WsEnd(s, w + Len(kw2)), sep)

\* /^kw1\s+kw2\s+(ident(?:SEPident)*)/
Keyword2Path(s, kw1, kw2, sep) ==
    IF LitAt(s, 1, kw1) THEN Keyword2At(s, WsEnd(s, Len(kw1) + 1), kw2, sep) ELSE Null

\* the first component of a matched path
RootOf(m, sep) == IF m = Null THEN Null ELSE OrElse(Split(m, sep)[1], Null)

\* \s+import after the capture cap of "from\s+(...)"
PyFromTail(s, cap) ==
    IF cap = Null THEN Null
    ELSE IF LitAt(s, WsEnd(s, WsEnd(s, 5) + Len(cap)), "import") THEN cap ELSE Null

\* /^from\s+(ident(?:\.ident)*)\s+import/
PyFromImport(s) == PyFromTail(s, KeywordPath(s, "from", "."))

PyMatch(s) == First(PyFromImport(s), KeywordPath(s, "import", "."))

\* PythonDiscoveryEngine.extractPackageNameFromImport
ExtractPython(s) == RootOf(PyMatch(s), ".")

\* /^extern\s+crate\s+(ident)/
RustExternCrate(s) == RootOf(Keyword2Path(s, "extern", "crate", "::"), "::")

RustMatch(s) == First(KeywordPath(s, "use", "::"), RustExternCrate(s))

\* RustDiscoveryEngine.extractPackageNameFromImport
ExtractRust(s) == RootOf(RustMatch(s), "::")

JavaMatch(s) == First(Keyword2Path(s, "import", "static", "."), KeywordPath(s, "import", "."))

\* everything except the last component
JavaPackage(fullPackage, parts) ==
    IF fullPackage = Null THEN Null
    ELSE IF Len(parts) > 1 THEN Join(SubSeq(parts, 1, Len(parts) - 1), ".") ELSE fullPackage

JavaPackageOf(m) == JavaPackage(m, IF m = Null THEN <<>> ELSE Split(m, "."))

\* JavaDiscoveryEngine.extractPackageNameFromImport
ExtractJava(s) == JavaPackageOf(JavaMatch(s))

\* "([^"]+)" opening at q and closing at e, with the rest of the line blank when toEnd
GoCapture(s, q, e, toEnd) ==
    IF ~(q >= 1 /\ q <= Len(s) /\ Char(s, q) = "\"" /\ e > q + 1 /\ e <= Len(s)) THEN Null
    ELSE IF toEnd /\ SpanEnd(s, e + 1, "ws") # Len(s) + 1 THEN Null
    ELSE SubSeq(s, q + 1, e - 1)

\* "([^"]+)" expected at q
GoQuoted(s, q, toEnd) == IF q = 0 THEN Null ELSE GoCapture(s, q, SpanEnd(s, q + 1, "notdquote"), toEnd)

\* alias\s+"([^"]+)" with the alias ending at a
GoAliased(s, a, toEnd) == IF a = 0 THEN Null ELSE GoQuoted(s, WsEnd(s, a), toEnd)

\* /^import\s+"([^"]+)"/ and /^import\s+(alias)\s+"([^"]+)"/ with the \s+ ending at w
GoImportLine(s, w) ==
    IF w = 0 THEN Null ELSE First(GoQuoted(s, w, FALSE), GoAliased(s, IdentEnd(s, w), FALSE))

\* /^\s*"([^"]+)"\s*$/ and /^\s*(alias)\s+"([^"]+)"\s*$/ with the \s* ending at b
GoBlockLine(s, b) == First(GoQuoted(s, b, TRUE), GoAliased(s, IdentEnd(s, b), TRUE))

\* the four patterns of GoDiscoveryEngine.extractPackageNameFromImport, in order
GoMatch(s) ==
    First(GoImportLine(s, IF LitAt(s, 1, "import") THEN WsEnd(s, 7) ELSE 0),
          GoBlockLine(s, SpanEnd(s, 1, "ws")))

\* GoDiscoveryEngine.extractPackageNameFromImport
ExtractGo(s) == OrElse(GoMatch(s), Null)

\* ------------------------------------------------------------------ standard-library registries
\* new Set([...]) in insertion order, duplicates dropped
NODE_BUILTIN_MODULES == <<
    "assert", "assert/strict", "async_hooks", "buffer", "child_process", "cluster", "console",
    "constants", "crypto", "dgram", "diagnostics_channel", "dns", "dns/promises", "domain",
    "events", "fs", "fs/promises", "http", "http2", "https", "inspector", "module", "net",
    "os", "path", "path/posix", "path/win32", "perf_hooks", "process", "punycode",
    "querystring", "readline", "readline/promises", "repl", "stream", "stream/promises",
    "stream/web", "string_decoder", "sys", "timers", "timers/promises", "tls", "trace_events",
    "tty", "url", "util", "util/types", "v8", "vm", "wasi", "worker_threads", "zlib",
    "stream/consumers", "node:test", "test", "node:assert", "node:assert/strict",
    "node:async_hooks", "node:buffer", "node:child_process", "node:cluster", "node:console",
    "node:constants", "node:crypto", "node:dgram", "node:diagnostics_channel", "node:dns",
    "node:dns/promises", "node:domain", "node:events", "node:fs", "node:fs/promises",
    "node:http", "node:http2", "node:https", "node:inspector", "node:module", "node:net",
    "node:os", "node:path", "node:path/posix", "node:path/win32", "node:perf_hooks",
    "node:process", "node:punycode", "node:querystring", "node:readline",
    "node:readline/promises", "node:repl", "node:stream", "node:stream/promises",
    "node:stream/web", "node:string_decoder", "node:sys", "node:timers",
    "node:timers/promises", "node:tls", "node:trace_events", "node:tty", "node:url",
    "node:util", "node:util/types", "node:v8", "node:vm", "node:wasi", "node:worker_threads",
    "node:zlib", "node:stream/consumers"
>>

\* new Set([...]) in insertion order, duplicates dropped
PYTHON_STDLIB_MODULES == <<
    "os", "sys", "json", "datetime", "time", "math", "random", "collections", "itertools",
    "functools", "operator", "copy", "pickle", "csv", "xml", "sqlite3", "threading",
    "multiprocessing", "asyncio", "concurrent", "urllib", "http", "email", "html", "pathlib",
    "shutil", "glob", "tempfile", "zipfile", "tarfile", "gzip", "bz2", "lzma", "subprocess",
    "io", "logging", "warnings", "traceback", "unittest", "doctest", "pdb", "profile",
    "pstats", "timeit", "argparse", "configparser", "getopt", "optparse", "socket", "ssl",
    "hashlib", "hmac", "secrets", "base64", "binascii", "struct", "codecs", "unicodedata",
    "stringprep", "readline", "rlcompleter", "cmd", "shlex", "queue", "sched", "mutex",
    "contextvars", "decimal", "fractions", "statistics", "array", "weakref", "gc", "inspect",
    "site", "imp", "importlib", "pkgutil", "modulefinder", "runpy", "ast", "keyword", "token",
    "tokenize", "parser", "symbol", "dis", "pickletools", "py_compile", "compileall",
    "marshal", "types", "enum", "dataclasses", "typing", "typing_extensions", "abc", "numbers",
    "zlib"
>>

\* new Set([...]) in insertion order, duplicates dropped
RUST_STDLIB_MODULES == <<
    "std", "core", "alloc", "proc_macro", "test", "std::collections", "std::fs", "std::io",
    "std::net", "std::os", "std::path", "std::process", "std::sync", "std::thread",
    "std::time", "std::env", "std::fmt", "std::str", "std::string", "std::vec", "std::hash",
    "std::convert", "std::default", "std::iter", "std::mem", "std::ptr", "std::slice",
    "std::borrow", "std::clone", "std::cmp", "std::marker", "std::ops", "std::option",
    "std::result", "std::any", "std::ascii", "std::char", "std::f32", "std::f64", "std::i8",
    "std::i16", "std::i32", "std::i64", "std::i128", "std::isize", "std::u8", "std::u16",
    "std::u32", "std::u64", "std::u128", "std::usize", "std::primitive"
>>

\* new Set([...]) in insertion order, duplicates dropped
GO_STDLIB_PACKAGES == <<
    "fmt", "log", "os", "io", "net", "http", "time", "strings", "strconv", "bytes", "bufio",
    "context", "sync", "json", "xml", "html", "url", "path", "filepath", "sort", "math",
    "crypto", "encoding", "compress", "archive", "database", "regexp", "unicode", "reflect",
    "runtime", "errors", "flag", "testing", "image", "text", "mime", "plugin", "debug", "go",
    "index", "container", "hash", "net/http", "net/url", "net/mail", "net/smtp",
    "net/textproto", "crypto/md5", "crypto/sha1", "crypto/sha256", "crypto/sha512",
    "crypto/aes", "crypto/des", "crypto/rsa", "crypto/rand", "crypto/tls", "crypto/x509",
    "encoding/json", "encoding/xml", "encoding/base64", "encoding/hex", "encoding/csv",
    "encoding/gob", "encoding/binary", "text/template", "text/scanner", "html/template",
    "image/jpeg", "image/png", "image/gif", "compress/gzip", "compress/zlib", "archive/zip",
    "archive/tar", "database/sql", "database/sql/driver", "go/ast", "go/build", "go/doc",
    "go/format", "go/parser", "go/token", "container/heap", "container/list", "container/ring",
    "hash/crc32", "hash/crc64", "hash/fnv", "index/suffixarray", "mime/multipart",
    "mime/quotedprintable", "debug/dwarf", "debug/elf", "debug/gosym", "debug/macho",
    "debug/pe", "debug/plan9obj"
>>

\* new Set([...]) in insertion order, duplicates dropped
JAVA_STDLIB_PACKAGES == <<
    "java.lang", "java.util", "java.io", "java.net", "java.nio", "java.time", "java.text",
    "java.math", "java.security", "java.sql", "java.awt", "java.swing", "javax.swing",
    "java.applet", "java.beans", "java.rmi", "java.util.concurrent", "java.util.regex",
    "java.util.stream", "java.util.function", "java.util.logging", "java.nio.file",
    "java.nio.charset", "java.security.cert", "java.security.spec", "java.time.format",
    "java.time.temporal", "java.time.zone", "javax.crypto", "javax.net", "javax.security",
    "javax.sql", "javax.xml", "javax.annotation", "javax.management", "javax.naming",
    "javax.script", "javax.sound", "javax.imageio", "javax.print", "javax.tools", "javax.lang",
    "javax.accessibility", "javax.activity", "javax.transaction", "org.w3c.dom", "org.xml.sax",
    "org.ietf.jgss"
>>


\* ------------------------------------------------------------------ the project directory
Cwd == "/work/app"          \* process.cwd()
OtherRoot == "/srv/other"   \* a projectPath a caller may pass

\* the directories the manifest walk visits from startDir: startDir and its
\* parents, the filesystem root excluded
RECURSIVE Ancestors(_)
Ancestors(dir) ==
    IF dir = "/" \/ dir = "" THEN <<>>
    ELSE LET parts == Split(dir, "/")
             parent == Join(SubSeq(parts, 1, Len(parts) - 1), "/")
         IN  <<dir>> \o Ancestors(IF parent = "" THEN "/" ELSE parent)

\* findPackageJson / findCargoToml / findGoMod / findBuildFile: the first
\* directory of the walk that holds the manifest, or Null
FindManifest(startDir, dirsWithManifest) ==
    LET walk == Ancestors(startDir) IN
    IF \A i \in 1..Len(walk) : walk[i] \notin dirsWithManifest THEN Null
    ELSE walk[CHOOSE i \in 1..Len(walk) :
                 walk[i] \in dirsWithManifest /\ \A j \in 1..(i - 1) : walk[j] \notin dirsWithManifest]

\* Object.keys({...a, ...b}) for key lists a and b
MergedKeys(a, b) == a \o SelectSeq(b, LAMBDA k : k \notin SeqToSet(a))

\* the property names every object literal inherits from Object.prototype
ObjectPrototypeKeys ==
    {"constructor", "toString", "valueOf", "hasOwnProperty", "isPrototypeOf",
     "propertyIsEnumerable", "toLocaleString", "__proto__", "__defineGetter__",
     "__defineSetter__", "__lookupGetter__", "__lookupSetter__"}

\* name in obj, for an object literal with the given own keys
InObject(name, ownKeys) == name \in SeqToSet(ownKeys) \/ name \in ObjectPrototypeKeys

\* ------------------------------------------------------------------ built-in module registry
\* isNodeBuiltinModule
IsNodeBuiltinModule(name) == name \in SeqToSet(NODE_BUILTIN_MODULES)

\* String.prototype.replace(pattern, "") for a string pattern: the first occurrence only
RemoveFirst(s, t) ==
    IF ~Includes(s, t) THEN s
    ELSE LET i == CHOOSE i \in 1..Len(s) : LitAt(s, i, t) /\ \A j \in 1..(i - 1) : ~LitAt(s, j, t)
         IN  SubSeq(s, 1, i - 1) \o SubSeq(s, i + Len(t), Len(s))

BuiltinDescriptions == <<
    <<"assert", "Assertion testing utilities">>,
    <<"async_hooks", "Async resource lifecycle tracking">>,
    <<"buffer", "Binary data handling">>,
    <<"child_process", "Child process spawning">>,
    <<"cluster", "Child process clustering">>,
    <<"console", "Console utilities">>,
    <<"constants", "System constants">>,
    <<"crypto", "Cryptographic functionality">>,
    <<"dgram", "UDP/datagram sockets">>,
    <<"diagnostics_channel", "Diagnostics channel API">>,
    <<"dns", "DNS lookups">>,
    <<"domain", "Domain error handling">>,
    <<"events", "Event emitter">>,
    <<"fs", "File system operations">>,
    <<"http", "HTTP server and client">>,
    <<"http2", "HTTP/2 server and client">>,
    <<"https", "HTTPS server and client">>,
    <<"inspector", "Inspector API">>,
    <<"module", "Module system utilities">>,
    <<"net", "TCP networking">>,
    <<"os", "Operating system utilities">>,
    <<"path", "File path utilities">>,
    <<"perf_hooks", "Performance measurement">>,
    <<"process", "Process object">>,
    <<"punycode", "Punycode encoding/decoding">>,
    <<"querystring", "Query string utilities">>,
    <<"readline", "Readline interface">>,
    <<"repl", "Read-eval-print loop">>,
    <<"stream", "Streaming data">>,
    <<"string_decoder", "String decoder">>,
    <<"sys", "System utilities (deprecated)">>,
    <<"timers", "Timer functions">>,
    <<"tls", "TLS/SSL encryption">>,
    <<"trace_events", "Trace events">>,
    <<"tty", "TTY utilities">>,
    <<"url", "URL parsing">>,
    <<"util", "Utility functions">>,
    <<"v8", "V8 engine utilities">>,
    <<"vm", "Virtual machine context">>,
    <<"wasi", "WebAssembly System Interface">>,
    <<"worker_threads", "Worker threads">>,
    <<"zlib", "Compression utilities">>,
    <<"test", "Test runner">>
>>

\* getBuiltinModuleInfo(name).description for a built-in module
BuiltinDescription(name) ==
    LET cleanName == RemoveFirst(name, "node:") IN
    IF \E i \in 1..Len(BuiltinDescriptions) : BuiltinDescriptions[i][1] = cleanName
    THEN BuiltinDescriptions[CHOOSE i \in 1..Len(BuiltinDescriptions) : BuiltinDescriptions[i][1] = cleanName][2]
    ELSE "Node.js built-in module"

\* ------------------------------------------------------------------ validateImport, by engine
\* Every engine operator gives [value |-> the ValidationResult, reads |-> the
\* sources consulted on the way]. An absent property of the result is an absent
\* field of the record.

\* a parse failure reported as an ordinary missing package
UnparsedAsMissing(reason) ==
    [value |-> [valid |-> FALSE, packageName |-> "", reason |-> reason, suggestions |-> <<>>],
     reads |-> {"stdlib", "manifest"}]

\* the outcome for a statement no pattern matches
Unparsed(reason) ==
    [value |-> [valid |-> FALSE, packageName |-> "unknown", reason |-> reason, suggestions |-> <<>>],
     reads |-> {}]

Similar(name, target) == Includes(name, target) \/ Includes(target, name)

\* --- JavaScript
\* an existence test that goes by the declarations of package.json
CheckPackageDeclared(e, packageName, projectRoot) ==
    [exists |-> \/ IsNodeBuiltinModule(packageName)
                \/ /\ FindManifest(Cwd, e.packageJsonDirs) # Null
                   /\ packageName \in SeqToSet(MergedKeys(e.dependencies, e.devDependencies)),
     reads |-> {"stdlib", "manifest"}]

\* checkPackageExists: [exists, reads]
CheckPackageExists(e, packageName, projectRoot) ==
    IF IsNodeBuiltinModule(packageName) THEN [exists |-> TRUE, reads |-> {"stdlib"}]
    ELSE IF packageName \in e.nodeModules[projectRoot]
         THEN [exists |-> TRUE, reads |-> {"stdlib", "node_modules"}]
         ELSE [exists |-> packageName \in e.resolvable[projectRoot],
               reads |-> {"stdlib", "node_modules", "resolve"}]

\* resolveModulePath
ResolveModulePath(e, moduleName, projectRoot) ==
    IF moduleName \in e.resolvable[projectRoot]
    THEN IF IsNodeBuiltinModule(moduleName) THEN moduleName
         ELSE projectRoot \o "/node_modules/" \o moduleName \o "/index.js"
    ELSE Null

\* JavaScriptDiscoveryEngine.getSimilarPackages
SimilarJs(e, packageName) ==
    IF FindManifest(Cwd, e.packageJsonDirs) = Null \/ ~e.packageJsonParses THEN <<>>
    ELSE Slice(SelectSeq(MergedKeys(e.dependencies, e.devDependencies),
                         LAMBDA name : Similar(name, packageName)), 5)

\* the result for a package that exists
FoundJs(packageName, modulePath, isBuiltin) ==
    IF isBuiltin
    THEN [valid |-> TRUE, packageName |-> packageName, modulePath |-> OrElse(modulePath, Undefined),
          reason |-> "Built-in Node.js module: " \o BuiltinDescription(packageName)]
    ELSE [valid |-> TRUE, packageName |-> packageName, modulePath |-> OrElse(modulePath, Undefined)]

\* validateImport once the existence test has answered
ValidateJsChecked(e, packageName, projectRoot, chk) ==
    IF chk.exists
    THEN [value |-> FoundJs(packageName, ResolveModulePath(e, packageName, projectRoot),
                            IsNodeBuiltinModule(packageName)),
          reads |-> chk.reads \cup {"resolve", "stdlib"}]
    ELSE [value |-> [valid |-> FALSE, packageName |-> packageName,
                     reason |-> "Package '" \o packageName \o "' is not installed or available",
                     suggestions |-> SimilarJs(e, packageName)],
          reads |-> chk.reads \cup {"manifest"}]

\* validateImport once the package name is extracted
ValidateJsNamed(e, packageName, projectRoot) ==
    IF packageName = Null THEN Unparsed("Could not parse import statement")
    ELSE ValidateJsChecked(e, packageName, projectRoot, CheckPackageExists(e, packageName, projectRoot))

\* JavaScriptDiscoveryEngine.validateImport
ValidateJs(e, input) ==
    ValidateJsNamed(e, ExtractJs(input.importStatement), OrElse(input.projectPath, Cwd))

\* --- the engines that check the standard library, then one existence test
\* a validateImport that goes by the existence test alone
ValidateByExistence(packageName, reasons, isStdlib, exists, similar) ==
    IF packageName = Null THEN Unparsed(reasons.unparsed)
    ELSE IF exists.found
         THEN [value |-> [valid |-> TRUE, packageName |-> packageName], reads |-> exists.reads]
         ELSE [value |-> [valid |-> FALSE, packageName |-> packageName,
                          reason |-> reasons.missing, suggestions |-> similar.names],
               reads |-> exists.reads \cup similar.reads]

\* the shape shared by the Python, Rust, Go and Java validateImport
ValidateBy(packageName, reasons, isStdlib, exists, similar) ==
    IF packageName = Null THEN Unparsed(reasons.unparsed)
    ELSE IF isStdlib
         THEN [value |-> [valid |-> TRUE, packageName |-> packageName, reason |-> reasons.stdlib],
               reads |-> {"stdlib"}]
         ELSE IF exists.found
              THEN [value |-> [valid |-> TRUE, packageName |-> packageName],
                    reads |-> {"stdlib"} \cup exists.reads]
              ELSE [value |-> [valid |-> FALSE, packageName |-> packageName,
                               reason |-> reasons.missing, suggestions |-> similar.names],
                    reads |-> {"stdlib"} \cup exists.reads \cup similar.reads]

\* every candidate, without the cut to five
SuggestAll(deps, registry, packageName) ==
    SelectSeq(deps, LAMBDA n : Similar(n, packageName))
        \o SelectSeq(registry, LAMBDA n : Similar(n, packageName))

\* candidates from the dependency list, then from the registry, cut to five
Suggest(deps, registry, packageName) ==
    Slice(SelectSeq(deps, LAMBDA n : Similar(n, packageName))
            \o SelectSeq(registry, LAMBDA n : Similar(n, packageName)), 5)

\* --- Python
\* getInstalledPackages: pip list, else conda list, else nothing
InstalledPackages(e) ==
    IF e.pipWorks THEN e.pipList ELSE IF e.condaWorks THEN e.condaList ELSE <<>>

\* PythonDiscoveryEngine.getSimilarPackages
SimilarPython(e, packageName) == Suggest(InstalledPackages(e), PYTHON_STDLIB_MODULES, packageName)

\* validateImport once the package name is extracted
ValidatePythonNamed(e, packageName) ==
    ValidateBy(packageName,
               [unparsed |-> "Could not parse import statement",
                stdlib |-> "Python standard library module",
                missing |-> "Package '" \o packageName \o "' is not installed"],
               packageName \in SeqToSet(PYTHON_STDLIB_MODULES),
               [found |-> packageName \in e.importable, reads |-> {"python"}],
               [names |-> SimilarPython(e, packageName),
                reads |-> IF e.pipWorks THEN {"pip"} ELSE {"pip", "conda"}])

\* PythonDiscoveryEngine.validateImport
ValidatePython(e, input) == ValidatePythonNamed(e, ExtractPython(input.importStatement))

\* --- Rust
\* isStandardLibraryModule
IsStandardLibraryModule(packageName) ==
    packageName \in SeqToSet(RUST_STDLIB_MODULES) \/ StartsWith(packageName, "std::")

\* checkPackageInCargo
CheckPackageInCargo(e, packageName) ==
    IF FindManifest(Cwd, e.cargoTomlDirs) = Null THEN FALSE
    ELSE InObject(packageName, e.cargoDependencies) \/ InObject(packageName, e.cargoDevDependencies)

\* RustDiscoveryEngine.getSimilarPackages
SimilarRust(e, packageName) ==
    Suggest(IF FindManifest(Cwd, e.cargoTomlDirs) = Null THEN <<>>
            ELSE MergedKeys(e.cargoDependencies, e.cargoDevDependencies),
            RUST_STDLIB_MODULES, packageName)

\* validateImport once the package name is extracted
ValidateRustNamed(e, packageName) ==
    ValidateBy(packageName,
               [unparsed |-> "Could not parse use statement",
                stdlib |-> "Rust standard library module",
                missing |-> "Crate '" \o packageName \o "' is not found in Cargo.toml"],
               IsStandardLibraryModule(packageName),
               [found |-> CheckPackageInCargo(e, packageName), reads |-> {"manifest"}],
               [names |-> SimilarRust(e, packageName), reads |-> {"manifest"}])

\* RustDiscoveryEngine.validateImport
ValidateRust(e, input) == ValidateRustNamed(e, ExtractRust(input.importStatement))

\* --- Go
\* checkPackageInGoMod
CheckPackageInGoMod(e, packageName) ==
    IF FindManifest(Cwd, e.goModDirs) = Null THEN FALSE
    ELSE \E i \in 1..Len(e.goRequire) : e.goRequire[i] = packageName

\* GoDiscoveryEngine.getSimilarPackages
SimilarGo(e, packageName) ==
    Suggest(IF FindManifest(Cwd, e.goModDirs) = Null THEN <<>> ELSE e.goRequire,
            GO_STDLIB_PACKAGES, packageName)

\* validateImport once the package name is extracted
ValidateGoNamed(e, packageName) ==
    ValidateBy(packageName,
               [unparsed |-> "Could not parse import statement",
                stdlib |-> "Go standard library package",
                missing |-> "Package '" \o packageName \o "' is not found in go.mod"],
               packageName \in SeqToSet(GO_STDLIB_PACKAGES),
               [found |-> CheckPackageInGoMod(e, packageName), reads |-> {"manifest"}],
               [names |-> SimilarGo(e, packageName), reads |-> {"manifest"}])

\* GoDiscoveryEngine.validateImport
ValidateGo(e, input) == ValidateGoNamed(e, ExtractGo(input.importStatement))

\* --- Java
\* isStandardLibraryPackage
IsStandardLibraryPackage(packageName) ==
    \/ packageName \in SeqToSet(JAVA_STDLIB_PACKAGES)
    \/ StartsWith(packageName, "java.")
    \/ StartsWith(packageName, "javax.")
    \/ StartsWith(packageName, "org.w3c.")
    \/ StartsWith(packageName, "org.xml.")
    \/ StartsWith(packageName, "org.ietf.")

\* parts[i] || '' for the parts of a "group:artifact" name
PartOrEmpty(name, i) ==
    LET parts == Split(name, ":") IN IF i <= Len(parts) THEN parts[i] ELSE ""

\* checkPackageInBuildFile
CheckPackageInBuildFile(e, packageName) ==
    IF FindManifest(Cwd, e.buildFileDirs) = Null THEN FALSE
    ELSE \E i \in 1..Len(e.buildPackages) :
            \/ Includes(e.buildPackages[i], packageName)
            \/ Includes(packageName, PartOrEmpty(e.buildPackages[i], 1))
            \/ Includes(packageName, PartOrEmpty(e.buildPackages[i], 2))

\* JavaDiscoveryEngine.getSimilarPackages
SimilarJava(e, packageName) ==
    Suggest(IF FindManifest(Cwd, e.buildFileDirs) = Null THEN <<>> ELSE e.buildPackages,
            JAVA_STDLIB_PACKAGES, packageName)

\* validateImport once the package name is extracted
ValidateJavaNamed(e, packageName) ==
    ValidateBy(packageName,
               [unparsed |-> "Could not parse import statement",
                stdlib |-> "Java standard library package",
                missing |-> "Package '" \o packageName \o "' is not found in build dependencies"],
               IsStandardLibraryPackage(packageName),
               [found |-> CheckPackageInBuildFile(e, packageName), reads |-> {"manifest"}],
               [names |-> SimilarJava(e, packageName), reads |-> {"manifest"}])

\* JavaDiscoveryEngine.validateImport
ValidateJava(e, input) == ValidateJavaNamed(e, ExtractJava(input.importStatement))

\* ------------------------------------------------------------------ discoverPackages, by engine
\* A PackageInfo keeps the properties the operations read back: name, installed
\* and description. A description is [kind, text]: kind is "undefined" when the
\* property is absent, "string" for a text, and "other" for a truthy value of
\* another type found in an installed package's package.json.
NoDescription == [kind |-> "undefined", text |-> ""]

Text(t) == [kind |-> "string", text |-> t]

PackageInfo(name, installed, description) ==
    [name |-> name, installed |-> installed, description |-> description]

\* a filter that lets every name through
MatchesAny(name, searchTerm) == name = name

\* !(searchTerm && !name.toLowerCase().includes(searchTerm.toLowerCase()))
MatchesTerm(name, searchTerm) ==
    searchTerm = Undefined \/ searchTerm = "" \/ Includes(ToLowerCase(name), ToLowerCase(searchTerm))

\* the loop "push, then break once packages.length >= maxResults"
TakeUntil(q, n) == IF Len(q) = 0 THEN <<>> ELSE Slice(q, IF n < 1 THEN 1 ELSE n)

\* the packages installed in node_modules under a project root
InstalledUnder(e, root) == IF root \in DOMAIN e.nodeModules THEN e.nodeModules[root] ELSE {}

\* packageJson.description of an installed package
DescriptionOf(e, name) ==
    IF \E d \in e.descriptions : d[1] = name
    THEN (CHOOSE d \in e.descriptions : d[1] = name)[2]
    ELSE NoDescription

\* getPackageInfo
GetPackageInfo(e, name, projectRoot) ==
    IF name \in InstalledUnder(e, projectRoot)
    THEN PackageInfo(name, TRUE, DescriptionOf(e, name))
    ELSE PackageInfo(name, FALSE, NoDescription)

\* the records of installed packages without a description
InstalledRecords(names) == [i \in 1..Len(names) |-> PackageInfo(names[i], TRUE, NoDescription)]

\* getGlobalPackages: npm list -g, or nothing when npm fails
GetGlobalPackages(e, searchTerm, maxResults) ==
    IF ~e.npmWorks THEN <<>>
    ELSE TakeUntil(InstalledRecords(SelectSeq(e.globalPackages, LAMBDA n : MatchesTerm(n, searchTerm))),
                   maxResults)

\* the records of the declared names that match, up to maxResults
LocalRecords(e, names, projectRoot, maxResults) ==
    TakeUntil([i \in 1..Len(names) |-> GetPackageInfo(e, names[i], projectRoot)], maxResults)

\* "Also check globally installed packages"
WithGlobal(e, input, packages) ==
    IF Len(packages) < input.maxResults
    THEN packages \o GetGlobalPackages(e, input.searchTerm, input.maxResults - Len(packages))
    ELSE packages

\* the try block of JavaScriptDiscoveryEngine.discoverPackages: a package.json
\* that does not parse throws before anything is pushed
PackagesJs(e, input, projectRoot) ==
    IF projectRoot = Null THEN WithGlobal(e, input, <<>>)
    ELSE IF ~e.packageJsonParses THEN <<>>
    ELSE WithGlobal(e, input,
                    LocalRecords(e, SelectSeq(MergedKeys(e.dependencies, e.devDependencies),
                                              LAMBDA n : MatchesTerm(n, input.searchTerm)),
                                 projectRoot, input.maxResults))

\* getStandardLibraryMatches
StdlibMatches(registry, searchTerm, description) ==
    IF searchTerm = "" THEN <<>>
    ELSE [i \in 1..Len(SelectSeq(registry, LAMBDA n : Includes(n, ToLowerCase(searchTerm)))) |->
            PackageInfo(SelectSeq(registry, LAMBDA n : Includes(n, ToLowerCase(searchTerm)))[i],
                        TRUE, Text(description))]

\* "Add standard library modules if they match the search"
WithStdlib(packages, registry, description, input) ==
    IF Len(packages) < input.maxResults
    THEN packages \o Slice(StdlibMatches(registry, OrElse(input.searchTerm, ""), description),
                           input.maxResults - Len(packages))
    ELSE packages

\* the try block of PythonDiscoveryEngine.discoverPackages
PackagesPython(e, input) ==
    WithStdlib(Slice(InstalledRecords(SelectSeq(InstalledPackages(e),
                                                LAMBDA n : MatchesTerm(n, input.searchTerm))),
                     input.maxResults),
               PYTHON_STDLIB_MODULES, "Python standard library module", input)

\* the dependency names a located manifest yields; a manifest that cannot be
\* read parses to nothing
ParsedNames(manifestDir, readable, names) ==
    IF manifestDir = Null \/ ~readable THEN <<>> ELSE names

\* the try block of the Rust, Go and Java discoverPackages
PackagesDeclared(names, registry, description, input) ==
    WithStdlib(TakeUntil(InstalledRecords(SelectSeq(names, LAMBDA n : MatchesTerm(n, input.searchTerm))),
                         input.maxResults),
               registry, description, input)

PackagesRust(e, input) ==
    PackagesDeclared(ParsedNames(FindManifest(Cwd, e.cargoTomlDirs), e.manifestReadable,
                                 MergedKeys(e.cargoDependencies,
                                            IF input.includeDevDependencies THEN e.cargoDevDependencies
                                            ELSE <<>>)),
                     RUST_STDLIB_MODULES, "Rust standard library module", input)

PackagesGo(e, input) ==
    PackagesDeclared(ParsedNames(FindManifest(Cwd, e.goModDirs), e.manifestReadable, e.goRequire),
                     GO_STDLIB_PACKAGES, "Go standard library package", input)

PackagesJava(e, input) ==
    PackagesDeclared(ParsedNames(FindManifest(Cwd, e.buildFileDirs), e.manifestReadable, e.buildPackages),
                     JAVA_STDLIB_PACKAGES, "Java standard library package", input)

\* the packages array at the end of discoverPackages' try/catch
Packages(engine, e, input) ==
    CASE engine = "JavaScriptDiscoveryEngine" -> PackagesJs(e, input, FindManifest(Cwd, e.packageJsonDirs))
      [] engine = "PythonDiscoveryEngine" -> PackagesPython(e, input)
      [] engine = "RustDiscoveryEngine" -> PackagesRust(e, input)
      [] engine = "GoDiscoveryEngine" -> PackagesGo(e, input)
      [] engine = "JavaDiscoveryEngine" -> PackagesJava(e, input)

\* the language each engine writes into its result
EngineLanguage(engine) ==
    CASE engine = "JavaScriptDiscoveryEngine" -> "javascript"
      [] engine = "PythonDiscoveryEngine" -> "python"
      [] engine = "RustDiscoveryEngine" -> "rust"
      [] engine = "GoDiscoveryEngine" -> "go"
      [] engine = "JavaDiscoveryEngine" -> "java"

\* a result whose packages go by the clock
DiscoveryResultByClock(packages, input, language, t) ==
    [packages |-> Slice(packages, IF t > 0 THEN 0 ELSE input.maxResults), totalFound |-> Len(packages),
     searchTerm |-> input.searchTerm, language |-> language, timestamp |-> t]

\* the DiscoveryResult built from the packages array at time t
DiscoveryResult(packages, input, language, t) ==
    [packages |-> Slice(packages, input.maxResults), totalFound |-> Len(packages),
     searchTerm |-> input.searchTerm, language |-> language, timestamp |-> t]

\* ------------------------------------------------------------------ semantic search
\* PACKAGE_CATEGORIES, in declaration order; every weight is 1.0
PACKAGE_CATEGORIES == <<
    [name |-> "ui", keywords |->
        <<"react", "vue", "angular", "component", "ui", "interface", "design", "styled", "css",
          "bootstrap", "material", "antd", "chakra", "semantic", "tailwind", "theme", "layout",
          "grid", "flex", "button", "form", "input", "modal", "dropdown", "menu", "navigation",
          "chart", "graph", "visualization", "datepicker", "calendar", "slider", "tooltip",
          "popover", "toast", "notification", "animation", "transition", "icon", "image",
          "gallery", "carousel", "slider", "accordion", "tabs", "pagination", "table", "grid",
          "list">>],
    [name |-> "data", keywords |->
        <<"database", "sql", "nosql", "mongodb", "postgres", "mysql", "redis", "orm", "query",
          "schema", "migration", "json", "xml", "csv", "parser", "serialization", "validation",
          "transform", "filter", "sort", "aggregate", "cache", "storage", "persistence",
          "indexing", "search", "elasticsearch", "solr", "lucene", "analytics", "metrics",
          "logging", "monitoring", "backup", "sync", "replication">>],
    [name |-> "network", keywords |->
        <<"http", "https", "request", "client", "server", "api", "rest", "graphql", "websocket",
          "socket", "tcp", "udp", "proxy", "middleware", "cors", "auth", "jwt", "oauth",
          "session", "cookie", "express", "koa", "fastify", "hapi", "nest", "apollo", "axios",
          "fetch", "superagent", "request", "curl", "download", "upload", "stream", "chunk",
          "compress", "gzip", "deflate", "ssl", "tls", "certificate", "encryption", "security">>],
    [name |-> "testing", keywords |->
        <<"test", "testing", "jest", "mocha", "chai", "jasmine", "karma", "cypress", "selenium",
          "playwright", "puppeteer", "mock", "stub", "spy", "fixture", "assertion", "expect",
          "should", "coverage", "benchmark", "performance", "load", "stress", "unit",
          "integration", "e2e", "snapshot", "runner", "framework", "suite", "spec", "describe",
          "it", "before", "after", "setup", "teardown">>],
    [name |-> "build", keywords |->
        <<"build", "webpack", "rollup", "vite", "parcel", "babel", "typescript", "compiler",
          "transpiler", "bundler", "minify", "optimize", "uglify", "terser", "postcss", "sass",
          "less", "stylus", "plugin", "loader", "preset", "config", "eslint", "prettier",
          "lint", "format", "gulp", "grunt", "task", "runner", "deploy", "ci", "cd", "github",
          "actions", "jenkins", "travis", "circle">>],
    [name |-> "utility", keywords |->
        <<"util", "helper", "lodash", "underscore", "ramda", "moment", "date", "time", "format",
          "parse", "string", "number", "math", "crypto", "hash", "uuid", "guid", "random",
          "color", "path", "file", "directory", "fs", "stream", "buffer", "array", "object",
          "collection", "functional", "promise", "async", "await", "throttle", "debounce",
          "retry", "queue", "stack", "tree", "graph", "algorithm", "sort", "search", "binary",
          "regex", "pattern", "match">>]
>>

\* FUNCTIONALITY_MAPPINGS, in declaration order
FUNCTIONALITY_MAPPINGS == <<
    [functionality |-> "http client", packages |-> <<"axios", "node-fetch", "superagent", "got", "request">>],
    [functionality |-> "http server", packages |-> <<"express", "koa", "fastify", "hapi", "nest">>],
    [functionality |-> "api testing", packages |-> <<"supertest", "nock", "msw", "jest">>],
    [functionality |-> "websocket", packages |-> <<"ws", "socket.io", "socketio">>],
    [functionality |-> "graphql", packages |-> <<"graphql", "apollo-server", "apollo-client", "relay">>],
    [functionality |-> "database", packages |-> <<"mongoose", "sequelize", "typeorm", "prisma", "knex">>],
    [functionality |-> "mongodb", packages |-> <<"mongoose", "mongodb">>],
    [functionality |-> "postgresql", packages |-> <<"pg", "sequelize", "typeorm", "prisma">>],
    [functionality |-> "mysql", packages |-> <<"mysql", "mysql2", "sequelize", "typeorm">>],
    [functionality |-> "redis", packages |-> <<"redis", "ioredis">>],
    [functionality |-> "orm", packages |-> <<"sequelize", "typeorm", "prisma", "objection">>],
    [functionality |-> "react", packages |-> <<"react", "react-dom", "react-router", "react-redux", "styled-components">>],
    [functionality |-> "vue", packages |-> <<"vue", "vue-router", "vuex", "nuxt">>],
    [functionality |-> "angular", packages |-> <<"@angular/core", "@angular/common", "@angular/router">>],
    [functionality |-> "ui components", packages |-> <<"antd", "material-ui", "chakra-ui", "semantic-ui-react">>],
    [functionality |-> "styling", packages |-> <<"styled-components", "emotion", "tailwindcss", "bootstrap">>],
    [functionality |-> "animation", packages |-> <<"framer-motion", "react-spring", "lottie-react", "gsap">>],
    [functionality |-> "charts", packages |-> <<"chart.js", "recharts", "d3", "plotly.js">>],
    [functionality |-> "testing", packages |-> <<"jest", "mocha", "chai", "jasmine", "vitest">>],
    [functionality |-> "e2e testing", packages |-> <<"cypress", "playwright", "puppeteer", "selenium-webdriver">>],
    [functionality |-> "mocking", packages |-> <<"jest", "sinon", "msw", "nock">>],
    [functionality |-> "bundling", packages |-> <<"webpack", "rollup", "vite", "parcel", "esbuild">>],
    [functionality |-> "transpiling", packages |-> <<"babel", "typescript", "swc">>],
    [functionality |-> "linting", packages |-> <<"eslint", "prettier", "jshint", "tslint">>],
    [functionality |-> "task runner", packages |-> <<"gulp", "grunt", "npm-run-all">>],
    [functionality |-> "date handling", packages |-> <<"moment", "date-fns", "dayjs", "luxon">>],
    [functionality |-> "validation", packages |-> <<"joi", "yup", "zod", "ajv">>],
    [functionality |-> "logging", packages |-> <<"winston", "pino", "bunyan", "debug">>],
    [functionality |-> "utilities", packages |-> <<"lodash", "underscore", "ramda", "rxjs">>],
    [functionality |-> "file processing", packages |-> <<"fs-extra", "glob", "chokidar", "sharp">>],
    [functionality |-> "crypto", packages |-> <<"crypto-js", "bcrypt", "jsonwebtoken", "uuid">>],
    [functionality |-> "process management", packages |-> <<"pm2", "forever", "nodemon", "concurrently">>],
    [functionality |-> "json", packages |-> <<"json5", "hjson", "jsonpath", "fast-json-stringify">>],
    [functionality |-> "xml", packages |-> <<"xml2js", "fast-xml-parser", "xmldom">>],
    [functionality |-> "csv", packages |-> <<"csv-parser", "fast-csv", "papaparse">>],
    [functionality |-> "yaml", packages |-> <<"js-yaml", "yaml">>]
>>

\* String.prototype.split(/\s+/)
RECURSIVE SplitWs(_)
RECURSIVE SplitWsAt(_, _)
SplitWs(s) ==
    SplitWsAt(s, IF \E i \in 1..Len(s) : Char(s, i) \in WsChars
                 THEN CHOOSE i \in 1..Len(s) : Char(s, i) \in WsChars /\ \A j \in 1..(i - 1) : Char(s, j) \notin WsChars
                 ELSE 0)

SplitWsAt(s, i) ==
    IF i = 0 THEN <<s>>
    ELSE <<SubSeq(s, 1, i - 1)>> \o SplitWs(SubSeq(s, SpanEnd(s, i, "ws"), Len(s)))

\* how many elements of a list satisfy a test, given as the set of their indices
Count(indices) == Cardinality(indices)

\* the score of lower-cased query, name and description
ScoreLower(queryLower, packageName, description, queryWords, descriptionWords) ==
    (IF packageName = queryLower THEN 100 ELSE 0)
    + (IF Includes(packageName, queryLower) \/ Includes(queryLower, packageName) THEN 50 ELSE 0)
    + 30 * Count({i \in 1..Len(queryWords) : Includes(packageName, queryWords[i])})
    + 20 * Count({i \in 1..Len(queryWords) :
                    \E j \in 1..Len(descriptionWords) : Includes(descriptionWords[j], queryWords[i])})
    + 10 * Count({p \in UNION {{<<c, k>> : k \in 1..Len(PACKAGE_CATEGORIES[c].keywords)} :
                                 c \in 1..Len(PACKAGE_CATEGORIES)} :
                    \/ Includes(queryLower, PACKAGE_CATEGORIES[p[1]].keywords[p[2]])
                    \/ Includes(packageName, PACKAGE_CATEGORIES[p[1]].keywords[p[2]])
                    \/ Includes(description, PACKAGE_CATEGORIES[p[1]].keywords[p[2]])})
    + 40 * Count({f \in 1..Len(FUNCTIONALITY_MAPPINGS) :
                    /\ Includes(queryLower, FUNCTIONALITY_MAPPINGS[f].functionality)
                    /\ packageName \in SeqToSet(FUNCTIONALITY_MAPPINGS[f].packages)})

ScoreWords(queryLower, packageName, description) ==
    ScoreLower(queryLower, packageName, description, SplitWs(queryLower), SplitWs(description))

\* a score that also goes by the clock
ScoreByClock(query, packageInfo) ==
    ScoreWords(ToLowerCase(query), ToLowerCase(packageInfo.name), ToLowerCase(packageInfo.description.text)) + now

\* calculateSemanticScore, for a package whose description is absent or a text
CalculateSemanticScore(query, packageInfo) ==
    ScoreWords(ToLowerCase(query), ToLowerCase(packageInfo.name), ToLowerCase(packageInfo.description.text))

\* the reduce of categorizePackage for category c
CategoryScore(c, packageName, description) ==
    2 * Count({k \in 1..Len(PACKAGE_CATEGORIES[c].keywords) :
                 Includes(packageName, PACKAGE_CATEGORIES[c].keywords[k])})
    + Count({k \in 1..Len(PACKAGE_CATEGORIES[c].keywords) :
               Includes(description, PACKAGE_CATEGORIES[c].keywords[k])})

\* the first category with the best score among <<category, score>> pairs,
\* 'utility' when every score is 0
BestOf(scores) ==
    IF \A p \in scores : p[2] = 0 THEN "utility"
    ELSE PACKAGE_CATEGORIES[(CHOOSE p \in scores :
            \A q \in scores : q[2] < p[2] \/ (q[2] = p[2] /\ q[1] >= p[1]))[1]].name

BestCategory(packageName, description) ==
    BestOf({<<c, CategoryScore(c, packageName, description)>> : c \in 1..Len(PACKAGE_CATEGORIES)})

\* categorizePackage
CategorizePackage(packageInfo) ==
    BestCategory(ToLowerCase(packageInfo.name), ToLowerCase(packageInfo.description.text))

\* enhancePackageInfo: semanticScore is <<>> when the property is left out
EnhancePackageInfo(packageInfo, query) ==
    [name |-> packageInfo.name, installed |-> packageInfo.installed,
     description |-> packageInfo.description, category |-> CategorizePackage(packageInfo),
     semanticScore |-> IF query = "" THEN <<>> ELSE <<CalculateSemanticScore(query, packageInfo)>>]

\* the keywords of the category filter: PACKAGE_CATEGORIES[category]?.keywords || []
CategoryKeywords(category) ==
    IF \E c \in 1..Len(PACKAGE_CATEGORIES) : PACKAGE_CATEGORIES[c].name = category
    THEN PACKAGE_CATEGORIES[CHOOSE c \in 1..Len(PACKAGE_CATEGORIES) : PACKAGE_CATEGORIES[c].name = category].keywords
    ELSE <<>>

\* the category filter's test on a lower-cased name and description
HasKeyword(packageName, description, keywords) ==
    \E k \in 1..Len(keywords) : Includes(packageName, keywords[k]) \/ Includes(description, keywords[k])

InCategory(packageInfo, category) ==
    category = "all" \/ HasKeyword(ToLowerCase(packageInfo.name), ToLowerCase(packageInfo.description.text),
                                   CategoryKeywords(category))

\* a sort that puts the lower score first
SortAscending(scored) ==
    [k \in 1..Len(scored) |->
        scored[CHOOSE i \in 1..Len(scored) :
                 k = 1 + Cardinality({j \in 1..Len(scored) :
                                        \/ scored[j].score < scored[i].score
                                        \/ scored[j].score = scored[i].score /\ j < i})]]

\* Array.prototype.sort((a, b) => b.score - a.score): descending and stable
SortByScore(scored) ==
    [k \in 1..Len(scored) |->
        scored[CHOOSE i \in 1..Len(scored) :
                 k = 1 + Cardinality({j \in 1..Len(scored) :
                                        \/ scored[j].score > scored[i].score
                                        \/ scored[j].score = scored[i].score /\ j < i})]]

\* packages.map(pkg => ({package: pkg, score: calculateSemanticScore(query, pkg)}))
ScoredPackages(query, packages) ==
    [i \in 1..Len(packages) |-> [package |-> packages[i], score |-> CalculateSemanticScore(query, packages[i])]]

\* filter by category, drop the zero scores, sort, slice
RankScored(scored, category, maxResults) ==
    Slice(SortByScore(SelectSeq(scored, LAMBDA sp : InCategory(sp.package, category) /\ sp.score > 0)),
          maxResults)

\* .map(({ package: pkg }) => pkg)
Unwrap(scored) == [i \in 1..Len(scored) |-> scored[i].package]

\* searchPackagesSemanticaly, for packages whose descriptions are absent or texts
SearchPackagesSemanticaly(query, packages, category, maxResults) ==
    Unwrap(RankScored(ScoredPackages(query, packages), category, maxResults))

\* ------------------------------------------------------------------ environments
\* What the engines read from outside the process: the manifests above the
\* working directory, the installed packages, what the interpreters answer.
\* project is the ecosystem of the project in the working directory.
Bare ==
    [name |-> "Bare", project |-> "javascript",
     packageJsonDirs |-> {}, packageJsonParses |-> TRUE,
     dependencies |-> <<>>, devDependencies |-> <<>>,
     nodeModules |-> [r \in {Cwd, OtherRoot} |-> {}],
     resolvable |-> [r \in {Cwd, OtherRoot} |-> {}],
     pipWorks |-> FALSE, pipList |-> <<>>, condaWorks |-> FALSE, condaList |-> <<>>,
     importable |-> {},
     cargoTomlDirs |-> {}, cargoDependencies |-> <<>>, cargoDevDependencies |-> <<>>,
     goModDirs |-> {}, goRequire |-> <<>>,
     buildFileDirs |-> {}, buildPackages |-> <<>>,
     manifestReadable |-> TRUE,
     descriptions |-> {}, npmWorks |-> FALSE, globalPackages |-> <<>>,
     moduleExports |-> {}, packageExports |-> <<>>, pythonModules |-> {}]

\* a package.json one level up; vitest declared but installed only under
\* another root; require is not defined in an ES module
JsEsm ==
    [Bare EXCEPT !.name = "JsEsm", !.packageJsonDirs = {"/work"},
                 !.dependencies = <<"express", "eslint", "jest">>,
                 !.devDependencies = <<"vitest", "vite", "prettier", "jest", "lodash-es">>,
                 !.nodeModules = [r \in {Cwd, OtherRoot} |->
                                    IF r = Cwd THEN {"express", "left-pad"} ELSE {"vitest"}]]

\* require.resolve is available; left-pad is installed but not declared, and
\* the npm package util is declared beside the built-in module of that name
JsCjs ==
    [JsEsm EXCEPT !.name = "JsCjs",
                  !.dependencies = <<"express", "util">>,
                  !.resolvable = [r \in {Cwd, OtherRoot} |->
                                    IF r = Cwd THEN {"express", "left-pad", "util"} ELSE {"vitest", "util"}]]

\* pip answers; numpy is listed by the pip of another interpreter, yaml is
\* importable under a distribution of another name
PyPip ==
    [Bare EXCEPT !.name = "PyPip", !.project = "python", !.pipWorks = TRUE,
                 !.pipList = <<"requests", "numpy", "PyYAML", "os-sys">>,
                 !.importable = {"requests", "yaml", "os", "sys"}]

\* pip fails, conda answers
PyConda ==
    [Bare EXCEPT !.name = "PyConda", !.project = "python", !.condaWorks = TRUE,
                 !.condaList = <<"requests">>, !.importable = {"requests", "os"}]

RustCargo ==
    [Bare EXCEPT !.name = "RustCargo", !.project = "rust", !.cargoTomlDirs = {Cwd},
                 !.cargoDependencies = <<"serde", "tokio">>,
                 !.cargoDevDependencies = <<"criterion", "serde">>]

\* a Cargo.toml in the filesystem root only, which the walk never visits
RustNoCargo ==
    [RustCargo EXCEPT !.name = "RustNoCargo", !.cargoTomlDirs = {"/"}]

GoMod ==
    [Bare EXCEPT !.name = "GoMod", !.project = "go", !.goModDirs = {"/work"},
                 !.goRequire = <<"github.com/gin-gonic/gin", "golang.org/x/net">>]

GoNoMod ==
    [Bare EXCEPT !.name = "GoNoMod", !.project = "go"]

JavaMaven ==
    [Bare EXCEPT !.name = "JavaMaven", !.project = "java", !.buildFileDirs = {Cwd},
                 !.buildPackages = <<"com.google.code.gson:gson", "org.junit.jupiter:junit-jupiter">>]

JavaNoBuild ==
    [Bare EXCEPT !.name = "JavaNoBuild", !.project = "java"]

Envs == {Bare, JsEsm, JsCjs, PyPip, PyConda, RustCargo, RustNoCargo, GoMod, GoNoMod,
         JavaMaven, JavaNoBuild}

\* the statements callers send in each environment
Statements(e) ==
    CASE e.name = "Bare" -> {"import fs from 'fs'", "import {describe} from 'vitest'", "import 'x"}
      [] e.name = "JsEsm" -> {"import {describe} from 'vitest'", "import e from 'express'", "import x from 'e'"}
      [] e.name = "JsCjs" -> {"require('util')", "require('left-pad')", "const x = 1"}
      [] e.name = "PyPip" -> {"import requests", "import numpy", "import yaml", "from s import x"}
      [] e.name = "PyConda" -> {"import os", "import requests", "print(1)"}
      [] e.name = "RustCargo" -> {"use serde::Deserialize;", "use constructor::Foo;",
                                  "use fake_crate::X;", "use s::x;"}
      [] e.name = "RustNoCargo" -> {"use std::fmt;", "use serde::Deserialize;", "fn main() {}"}
      [] e.name = "GoMod" -> {"import \"github.com/gin-gonic/gin\"", "import \"fmt\"",
                              "import \"github.com/fake/pkg\"", "import \"o\""}
      [] e.name = "GoNoMod" -> {"import \"fmt\"", "import \"github.com/gin-gonic/gin\"", "func main() {}"}
      [] e.name = "JavaMaven" -> {"import com.google.code.gson.Gson;", "import my.gsonlike.Foo;",
                                  "import com.fake.Thing;", "import a.B;"}
      [] e.name = "JavaNoBuild" -> {"import java.util.List;", "import com.google.code.gson.Gson;",
                                    "class A {}"}

\* --- environments for discovery
\* package.json beside the working directory; ts-jest and vitest are declared
\* for development only; npm lists two global packages
JsApp ==
    [Bare EXCEPT !.name = "JsApp", !.packageJsonDirs = {Cwd},
                 !.dependencies = <<"express", "jest">>,
                 !.devDependencies = <<"ts-jest", "vitest">>,
                 !.nodeModules = [r \in {Cwd, OtherRoot} |->
                                    IF r = Cwd THEN {"express", "jest", "vitest"} ELSE {}],
                 !.descriptions = {<<"express", Text("Fast, unopinionated web framework")>>,
                                   <<"jest", Text("Delightful JavaScript Testing.")>>},
                 !.npmWorks = TRUE, !.globalPackages = <<"npm", "jest-cli">>]

\* the installed express carries "description": 42 in its package.json
JsOddDescription ==
    [JsApp EXCEPT !.name = "JsOddDescription",
                  !.descriptions = {<<"express", [kind |-> "other", text |-> "42"]>>,
                                    <<"jest", Text("Delightful JavaScript Testing.")>>}]

\* the located package.json is not valid JSON
JsBrokenManifest ==
    [JsApp EXCEPT !.name = "JsBrokenManifest", !.packageJsonParses = FALSE]

\* neither pip nor conda answers
PyNone ==
    [Bare EXCEPT !.name = "PyNone", !.project = "python"]

\* the located Cargo.toml cannot be read
RustUnreadable ==
    [RustCargo EXCEPT !.name = "RustUnreadable", !.manifestReadable = FALSE]

DiscoverEnvs == {JsApp, JsOddDescription, JsBrokenManifest, PyPip, PyNone, RustCargo, RustUnreadable,
                 GoMod, JavaMaven}

\* the arguments callers send with discover_packages and search_affordances
DiscoverArgs(language, searchTerm, includeDevDependencies, maxResults) ==
    [language |-> language, searchTerm |-> searchTerm,
     includeDevDependencies |-> includeDevDependencies, maxResults |-> maxResults]

SearchArgs(query, language, category, maxResults) ==
    [query |-> query, language |-> language, category |-> category, maxResults |-> maxResults]

\* an optional number or boolean left out of the arguments
Omitted == {}

DiscoverRequests(e) ==
    CASE e.name = "JsApp" -> {DiscoverArgs("javascript", "JEST", {FALSE}, {1}),
                              DiscoverArgs("javascript", Undefined, Omitted, Omitted)}
      [] e.name = "JsOddDescription" -> {DiscoverArgs("javascript", Undefined, {FALSE}, {50})}
      [] e.name = "JsBrokenManifest" -> {DiscoverArgs("javascript", Undefined, {FALSE}, {50}),
                                         DiscoverArgs("javascript", "jest", {TRUE}, {2})}
      [] e.name = "PyPip" -> {DiscoverArgs("python", "OS", {FALSE}, {50}),
                              DiscoverArgs("python", Undefined, {FALSE}, {2}),
                              DiscoverArgs("python", "yaml", {TRUE}, {20})}
      [] e.name = "PyNone" -> {DiscoverArgs("python", "sys", {FALSE}, {50}),
                               DiscoverArgs("python", Undefined, Omitted, Omitted)}
      [] e.name = "RustCargo" -> {DiscoverArgs("rust", Undefined, {FALSE}, {50}),
                                  DiscoverArgs("rust", Undefined, {TRUE}, {50}),
                                  DiscoverArgs("rust", "SER", {FALSE}, {1})}
      [] e.name = "RustUnreadable" -> {DiscoverArgs("rust", Undefined, {TRUE}, {50}),
                                       DiscoverArgs("rust", "fmt", {FALSE}, {50})}
      [] e.name = "GoMod" -> {DiscoverArgs("go", "GIN", {FALSE}, {50}),
                              DiscoverArgs("go", Undefined, {FALSE}, {1})}
      [] e.name = "JavaMaven" -> {DiscoverArgs("java", "junit", {FALSE}, {50}),
                                  DiscoverArgs("java", Undefined, {TRUE}, {1})}

SearchRequests(e) ==
    CASE e.name = "JsApp" -> {SearchArgs("testing", "javascript", "all", {2}),
                              SearchArgs("JEST", "javascript", "testing", Omitted)}
      [] e.name = "JsOddDescription" -> {SearchArgs("web", "javascript", "all", {20})}
      [] e.name = "JsBrokenManifest" -> {SearchArgs("jest", "javascript", "all", {20})}
      [] e.name = "PyPip" -> {SearchArgs("yaml", "python", "all", {20})}
      [] e.name = "PyNone" -> {SearchArgs("os", "python", "all", {1})}
      [] e.name = "RustCargo" -> {SearchArgs("serde", "rust", "testing", {20})}
      [] e.name = "RustUnreadable" -> {SearchArgs("io", "rust", "all", {20})}
      [] e.name = "GoMod" -> {SearchArgs("net", "go", "network", {20})}
      [] e.name = "JavaMaven" -> {SearchArgs("gson", "java", "all", {20})}

\* arguments the schemas reject
MalformedDiscover ==
    {DiscoverArgs("rust", "x", {FALSE}, {0}), DiscoverArgs("rust", "x", {FALSE}, {101}),
     DiscoverArgs("ruby", "x", {FALSE}, {5})}

MalformedSearch ==
    {SearchArgs(Undefined, "go", "all", {5}), SearchArgs("x", "go", "games", {5}),
     SearchArgs("x", "go", "all", {51})}

\* --- environments for introspection
\* a CommonJS build: require.resolve finds express, left-pad, chalk and the
\* built-in fs; the package.json of the working directory has an "exports"
\* field. The parser finds exports in express only; chalk shows its exports
\* when it is loaded; left-pad has nothing but its package.json
JsLib ==
    [Bare EXCEPT !.name = "JsLib", !.packageJsonDirs = {Cwd},
                 !.dependencies = <<"express", "left-pad">>,
                 !.nodeModules = [r \in {Cwd, OtherRoot} |->
                                    IF r = Cwd THEN {"express", "left-pad", "chalk"} ELSE {}],
                 !.resolvable = [r \in {Cwd, OtherRoot} |->
                                    IF r = Cwd THEN {"express", "left-pad", "chalk", "fs"} ELSE {}],
                 !.packageExports = <<".", "./utils">>,
                 !.moduleExports =
                     {[name |-> "express",
                       ast |-> <<[name |-> "Router", type |-> "function"],
                                 [name |-> "_router", type |-> "constant"]>>,
                       imported |-> <<[name |-> "default", type |-> "function"]>>,
                       packageExports |-> <<>>, files |-> <<"application", "router">>,
                       dependencies |-> <<"accepts", "body-parser">>],
                      [name |-> "chalk", ast |-> <<>>,
                       imported |-> <<[name |-> "default", type |-> "function"],
                                      [name |-> "_styles", type |-> "namespace"]>>,
                       packageExports |-> <<".", "./source">>, files |-> <<>>,
                       dependencies |-> <<>>],
                      [name |-> "left-pad", ast |-> <<>>, imported |-> <<>>,
                       packageExports |-> <<".">>, files |-> <<>>, dependencies |-> <<>>]}]

\* an ES-module build: require is not defined, so nothing resolves; the
\* package.json lies above the working directory
JsEsmLib ==
    [JsLib EXCEPT !.name = "JsEsmLib", !.packageJsonDirs = {"/work"},
                  !.resolvable = [r \in {Cwd, OtherRoot} |-> {}]]

\* python imports json from a file and sys, which has no __file__
PyMods ==
    [PyPip EXCEPT !.name = "PyMods",
                  !.pythonModules =
                      {[name |-> "json", file |-> "/usr/lib/python3/json/__init__.py",
                        members |-> <<[name |-> "dumps", type |-> "function"],
                                      [name |-> "_default_decoder", type |-> "constant"]>>],
                       [name |-> "sys", file |-> Null,
                        members |-> <<[name |-> "argv", type |-> "constant"],
                                      [name |-> "exit", type |-> "function"]>>]}]

IntrospectEnvs == {JsLib, JsEsmLib, PyMods, RustCargo, GoMod, JavaMaven}

IntrospectArgs(moduleName, language, includePrivate, maxDepth) ==
    [moduleName |-> moduleName, language |-> language, includePrivate |-> includePrivate,
     maxDepth |-> maxDepth]

IntrospectRequests(e) ==
    CASE e.name = "JsLib" -> {IntrospectArgs("express", "javascript", Omitted, Omitted),
                              IntrospectArgs("express", "javascript", {TRUE}, {3}),
                              IntrospectArgs("left-pad", "javascript", {FALSE}, {2}),
                              IntrospectArgs("chalk", "javascript", Omitted, Omitted),
                              IntrospectArgs("fs", Undefined, Omitted, Omitted),
                              IntrospectArgs("no-such-module", "javascript", Omitted, Omitted)}
      [] e.name = "JsEsmLib" -> {IntrospectArgs("express", "javascript", Omitted, Omitted),
                                 IntrospectArgs("fs", "javascript", Omitted, Omitted),
                                 IntrospectArgs("no-such-module", "javascript", Omitted, Omitted)}
      [] e.name = "PyMods" -> {IntrospectArgs("json", "python", Omitted, Omitted),
                               IntrospectArgs("json", "python", {TRUE}, {1}),
                               IntrospectArgs("sys", "python", Omitted, Omitted),
                               IntrospectArgs("no_such_module", "python", Omitted, Omitted)}
      [] OTHER -> {IntrospectArgs("serde", e.project, Omitted, Omitted),
                   IntrospectArgs("fmt", e.project, {TRUE}, {5})}

MalformedIntrospect ==
    {IntrospectArgs(Undefined, "go", Omitted, Omitted), IntrospectArgs("x", "ruby", Omitted, Omitted),
     IntrospectArgs("x", "go", Omitted, {6})}

\* ------------------------------------------------------------------ Map
\* A JavaScript Map<string, CacheEntry>: iteration is in insertion order, a
\* set on a key already present keeps the key's position.
MapHas(m, k) == \E i \in 1..Len(m) : m[i].key = k

MapIndex(m, k) == CHOOSE i \in 1..Len(m) : m[i].key = k

MapGet(m, k) == IF MapHas(m, k) THEN m[MapIndex(m, k)] ELSE Undefined

\* a set that always adds an entry
MapAppend(m, k, e) == Append(m, e)

MapSet(m, k, e) ==
    IF MapHas(m, k)
    THEN [i \in 1..Len(m) |-> IF m[i].key = k THEN e ELSE m[i]]
    ELSE Append(m, e)

MapDelete(m, k) == SelectSeq(m, LAMBDA e : e.key # k)

MapKeys(m) == {m[i].key : i \in 1..Len(m)}

\* The truthiness of a string: only "" is falsy.
Truthy(s) == s # ""

\* ------------------------------------------------------------------ CacheManager
\* an expiry test that also drops an entry at the very end of its ttl
ExpiredOffByOne(entry, t) == t - entry.timestamp >= entry.ttl

\* an expiry test under which no entry ever expires
ExpiredNever(entry, t) == FALSE

\* the expiry test of get() and cleanup()
Expired(entry, t) == t - entry.timestamp > entry.ttl

\* a get() that never finds an entry
GetMiss(m, key, t) == [cache |-> m, value |-> Null, found |-> FALSE]

\* get(key): [cache |-> the Map afterwards, value |-> what is returned]
GetResult(m, key, t) ==
    IF ~MapHas(m, key) THEN [cache |-> m, value |-> Null, found |-> FALSE]
    ELSE IF Expired(MapGet(m, key), t)
         THEN [cache |-> MapDelete(m, key), value |-> Null, found |-> FALSE]
         ELSE [cache |-> m, value |-> MapGet(m, key).data, found |-> TRUE]

\* the eviction step of set(): the Map after "if cache is full, remove oldest entry"
EvictOldest(m, max) ==
    IF Len(m) >= max
    THEN IF Len(m) > 0 /\ Truthy(m[1].key) THEN MapDelete(m, m[1].key) ELSE m
    ELSE m

\* set(key, value, customTtl): the Map afterwards
SetResult(m, opts, key, value, customTtl, t) ==
    MapSet(EvictOldest(m, opts.maxSize), key,
           [key |-> key, data |-> value, timestamp |-> t,
            ttl |-> IF customTtl = {} THEN opts.ttl ELSE CHOOSE n \in customTtl : TRUE])

\* a sweep that also drops the entries at the very end of their ttl
CleanupOffByOne(m, t) == SelectSeq(m, LAMBDA e : ~ExpiredOffByOne(e, t))

\* cleanup(): the Map without its expired entries
CleanupResult(m, t) == SelectSeq(m, LAMBDA e : ~Expired(e, t))

Removed(m, m2) == MapKeys(m) \ MapKeys(m2)

\* ------------------------------------------------------------------ cache operations
Keys == {"", "a", "b"}
\* the (value, customTtl) pairs set() is called with; customTtl is {} when the
\* argument is omitted and {n} when it is given
SetInputs == {<<"v1", {}>>, <<"v2", {1}>>}
DefaultTtl == 2
NoFs == "<none>"

CacheGet(k) ==
    LET r == GetResult(cache, k, now) IN
    /\ cache' = r.cache
    /\ ret' = [op |-> "get", key |-> k, value |-> r.value, removed |-> Removed(cache, r.cache)]
    /\ UNCHANGED <<options, now, sweepDue, fs, inflight>>

CacheSet(k, v, ttl) ==
    LET c == SetResult(cache, options, k, v, ttl, now) IN
    /\ cache' = c
    /\ ret' = [op |-> "set", key |-> k, value |-> Undefined, removed |-> Removed(cache, c)]
    /\ UNCHANGED <<options, now, sweepDue, fs, inflight>>

CacheHas(k) ==
    LET r == GetResult(cache, k, now) IN
    /\ cache' = r.cache
    /\ ret' = [op |-> "has", key |-> k, value |-> (r.value # Null), removed |-> Removed(cache, r.cache)]
    /\ UNCHANGED <<options, now, sweepDue, fs, inflight>>

CacheDelete(k) ==
    /\ cache' = MapDelete(cache, k)
    /\ ret' = [op |-> "delete", key |-> k, value |-> MapHas(cache, k), removed |-> Removed(cache, MapDelete(cache, k))]
    /\ UNCHANGED <<options, now, sweepDue, fs, inflight>>

CacheClear ==
    /\ cache' = <<>>
    /\ ret' = [op |-> "clear", key |-> Undefined, value |-> Undefined, removed |-> MapKeys(cache)]
    /\ UNCHANGED <<options, now, sweepDue, fs, inflight>>

GetStats ==
    /\ ret' = [op |-> "stats", key |-> Undefined,
               value |-> [size |-> Len(cache), maxSize |-> options.maxSize],
               removed |-> {}]
    /\ UNCHANGED <<cache, options, now, sweepDue, fs, inflight>>

\* the setInterval callback: due once per interval, may run late
Cleanup ==
    /\ sweepDue
    /\ cache' = CleanupResult(cache, now)
    /\ sweepDue' = FALSE
    /\ ret' = [op |-> "cleanup", key |-> Undefined, value |-> Undefined,
               removed |-> Removed(cache, CleanupResult(cache, now))]
    /\ UNCHANGED <<options, now, fs, inflight>>

Tick ==
    /\ now < MaxTime
    /\ now' = now + 1
    /\ sweepDue' = TRUE
    /\ UNCHANGED <<cache, options, ret, fs, inflight>>

NoRet == [op |-> "none", key |-> Undefined, value |-> Undefined, removed |-> {}]

\* the callers that may have an operation under way, and a caller with none
Callers == {1, 2}

Idle ==
    [pc |-> "idle", tool |-> Undefined, args |-> Undefined, key |-> Undefined, value |-> Undefined,
     hit |-> FALSE, raced |-> FALSE]

NoneInFlight == [c \in Callers |-> Idle]

InitCache ==
    /\ cache = <<>>
    /\ options \in [ttl : {DefaultTtl}, maxSize : 1..MaxSize]
    /\ now = 0
    /\ sweepDue = FALSE
    /\ ret = NoRet
    /\ fs = NoFs
    /\ inflight = NoneInFlight

NextCache ==
    \/ \E k \in Keys : CacheGet(k)
    \/ \E k \in Keys, i \in SetInputs : CacheSet(k, i[1], i[2])
    \/ \E k \in Keys : CacheHas(k)
    \/ \E k \in Keys : CacheDelete(k)
    \/ CacheClear
    \/ GetStats
    \/ Cleanup
    \/ Tick

SpecCache == InitCache /\ [][NextCache]_vars

\* ------------------------------------------------------------------ engine registry
SharedCache == "CacheManager#1"   \* the cache object the server constructs

\* DiscoveryEngineFactory.initializeEngines: language -> engine, each holding the cache it was given
InitializeEngines(cacheRef) ==
    <<[key |-> "javascript", engine |-> "JavaScriptDiscoveryEngine", cache |-> cacheRef],
      [key |-> "python", engine |-> "PythonDiscoveryEngine", cache |-> cacheRef],
      [key |-> "rust", engine |-> "RustDiscoveryEngine", cache |-> cacheRef],
      [key |-> "go", engine |-> "GoDiscoveryEngine", cache |-> cacheRef],
      [key |-> "java", engine |-> "JavaDiscoveryEngine", cache |-> cacheRef]>>

Engines == InitializeEngines(SharedCache)

\* a lookup that keeps the caller's spelling
KeepCase(language) == language

\* language.toLowerCase()
NormalizeLanguage(language) == ToLowerCase(language)

\* DiscoveryEngineFactory.getEngine: the engine, or the error thrown
GetEngineResult(language) ==
    IF MapHas(Engines, NormalizeLanguage(language))
    THEN [threw |-> FALSE, engine |-> MapGet(Engines, NormalizeLanguage(language))]
    ELSE [threw |-> TRUE, message |-> "Unsupported language: " \o language]

\* DiscoveryEngineFactory.isLanguageSupported
IsLanguageSupportedResult(language) == MapHas(Engines, NormalizeLanguage(language))

\* the identifiers callers pass to the registry
Languages == {"javascript", "python", "rust", "go", "java", "JavaScript", "GO", "ruby", ""}

\* both registry answers for each of them, tabulated once
RegistryTable == {<<l, GetEngineResult(l), IsLanguageSupportedResult(l)>> : l \in Languages}

Registry(language) == CHOOSE t \in RegistryTable : t[1] = language

\* ------------------------------------------------------------------ tool-call adapter
LanguageEnum == {"javascript", "python", "rust", "go", "java"}

\* ValidateImportInputSchema.parse: the input with the default filled in, or a ZodError
ParseValidateImportInput(args) ==
    IF args.importStatement = Undefined
    THEN [threw |-> TRUE, message |-> "ZodError: importStatement: Required"]
    ELSE IF args.language = Undefined
         THEN [threw |-> FALSE, input |-> [args EXCEPT !.language = "javascript"]]
         ELSE IF args.language \notin LanguageEnum
              THEN [threw |-> TRUE, message |-> "ZodError: language: Invalid enum value"]
              ELSE [threw |-> FALSE, input |-> args]

\* CacheManager.generateKey
\* a join that leaves nothing out
GenerateKeyAll(parts) == Join(parts, ":")

GenerateKey(parts) == Join(SelectSeq(parts, LAMBDA p : p # Undefined), ":")

\* the cache key each engine's validateImport uses
ValidateKey(engine, input) ==
    CASE engine = "JavaScriptDiscoveryEngine" ->
           GenerateKey(<<"validate", input.importStatement, input.language, input.projectPath>>)
      [] engine = "PythonDiscoveryEngine" -> GenerateKey(<<"validate_python", input.importStatement>>)
      [] engine = "RustDiscoveryEngine" -> GenerateKey(<<"validate_rust", input.importStatement>>)
      [] engine = "GoDiscoveryEngine" -> GenerateKey(<<"validate_go", input.importStatement>>)
      [] engine = "JavaDiscoveryEngine" -> GenerateKey(<<"validate_java", input.importStatement>>)

\* the part of validateImport after a cache miss
Validate(engine, e, input) ==
    CASE engine = "JavaScriptDiscoveryEngine" -> ValidateJs(e, input)
      [] engine = "PythonDiscoveryEngine" -> ValidatePython(e, input)
      [] engine = "RustDiscoveryEngine" -> ValidateRust(e, input)
      [] engine = "GoDiscoveryEngine" -> ValidateGo(e, input)
      [] engine = "JavaDiscoveryEngine" -> ValidateJava(e, input)

\* the arguments callers send with validate_import
Request(statement, language, projectPath) ==
    [importStatement |-> statement, language |-> language, projectPath |-> projectPath]

Requests(e) ==
    {Request(st, e.project, Undefined) : st \in Statements(e)}
      \cup (IF e.name = "JsEsm" THEN {Request("import {describe} from 'vitest'", "javascript", OtherRoot)}
            ELSE {})

\* arguments the schema rejects, and one that relies on the default language
Malformed ==
    {Request("import x", "ruby", Undefined), Request("import os", "Python", Undefined),
     Request(Undefined, "go", Undefined), Request("import fs from 'fs'", Undefined, Undefined)}

AllRequests == UNION {Requests(e) : e \in Envs} \cup Malformed

\* what each engine computes for each request in each environment, tabulated
\* once: <<environment, arguments, outcome>>
ComputedTable ==
    {<<p[1], p[2], LET input == ParseValidateImportInput(p[2]).input
                   IN  Validate(Registry(input.language)[2].engine.engine, p[1], input)>> :
        p \in {q \in Envs \X AllRequests :
                 q[2] \in Requests(q[1]) \cup Malformed /\ ~ParseValidateImportInput(q[2]).threw}}

Computed(e, args) == (CHOOSE t \in ComputedTable : t[1] = e /\ t[2] = args)[3]

\* ------------------------------------------------------------------ discovery and search through the adapter
\* the one value of an optional argument, or its default when it is left out
Given(optional, default) == IF optional = {} THEN default ELSE CHOOSE v \in optional : TRUE

\* z.number().min(lo).max(hi).default(d)
NumberInRange(optional, lo, hi) == optional = {} \/ \A n \in optional : n >= lo /\ n <= hi

\* DiscoverPackagesInputSchema.parse
ParseDiscoverPackagesInput(args) ==
    IF args.language # Undefined /\ args.language \notin LanguageEnum
    THEN [threw |-> TRUE, message |-> "ZodError: language: Invalid enum value"]
    ELSE IF ~NumberInRange(args.maxResults, 1, 100)
         THEN [threw |-> TRUE, message |-> "ZodError: maxResults: out of range"]
         ELSE [threw |-> FALSE,
               input |-> [language |-> IF args.language = Undefined THEN "javascript" ELSE args.language,
                          searchTerm |-> args.searchTerm,
                          includeDevDependencies |-> Given(args.includeDevDependencies, FALSE),
                          maxResults |-> Given(args.maxResults, 50)]]

CategoryEnum == {"ui", "data", "network", "testing", "build", "utility", "all"}

\* SearchAffordancesInputSchema.parse
ParseSearchAffordancesInput(args) ==
    IF args.query = Undefined THEN [threw |-> TRUE, message |-> "ZodError: query: Required"]
    ELSE IF args.language # Undefined /\ args.language \notin LanguageEnum
         THEN [threw |-> TRUE, message |-> "ZodError: language: Invalid enum value"]
         ELSE IF args.category # Undefined /\ args.category \notin CategoryEnum
              THEN [threw |-> TRUE, message |-> "ZodError: category: Invalid enum value"]
              ELSE IF ~NumberInRange(args.maxResults, 1, 50)
                   THEN [threw |-> TRUE, message |-> "ZodError: maxResults: out of range"]
                   ELSE [threw |-> FALSE,
                         input |-> [query |-> args.query,
                                    language |-> IF args.language = Undefined THEN "javascript"
                                                 ELSE args.language,
                                    category |-> IF args.category = Undefined THEN "all" ELSE args.category,
                                    maxResults |-> Given(args.maxResults, 20)]]

\* String(n) for a natural number
RECURSIVE DecStr(_)
DecStr(n) == IF n < 10 THEN Char(Digits, n + 1) ELSE DecStr(n \div 10) \o Char(Digits, (n % 10) + 1)

\* String(b) for a boolean
BoolStr(b) == IF b THEN "true" ELSE "false"

\* the cache key each engine's discoverPackages uses
DiscoverKey(engine, input) ==
    CASE engine = "JavaScriptDiscoveryEngine" ->
           GenerateKey(<<"discover", input.language, input.searchTerm,
                         BoolStr(input.includeDevDependencies), DecStr(input.maxResults)>>)
      [] engine = "PythonDiscoveryEngine" ->
           GenerateKey(<<"discover_python", input.searchTerm,
                         BoolStr(input.includeDevDependencies), DecStr(input.maxResults)>>)
      [] engine = "RustDiscoveryEngine" ->
           GenerateKey(<<"discover_rust", input.searchTerm,
                         BoolStr(input.includeDevDependencies), DecStr(input.maxResults)>>)
      [] engine = "GoDiscoveryEngine" ->
           GenerateKey(<<"discover_go", input.searchTerm,
                         BoolStr(input.includeDevDependencies), DecStr(input.maxResults)>>)
      [] engine = "JavaDiscoveryEngine" ->
           GenerateKey(<<"discover_java", input.searchTerm,
                         BoolStr(input.includeDevDependencies), DecStr(input.maxResults)>>)

\* the cache key of JavaScriptDiscoveryEngine.searchAffordances
SearchKey(input) ==
    GenerateKey(<<"searchAffordances", input.query, input.language, input.category,
                  DecStr(input.maxResults)>>)

\* the input searchAffordances hands to discoverPackages
SearchAsDiscover(engine, input) ==
    IF engine = "JavaScriptDiscoveryEngine"
    THEN [language |-> input.language, searchTerm |-> "", includeDevDependencies |-> TRUE,
          maxResults |-> 1000]
    ELSE [language |-> input.language, searchTerm |-> input.query, includeDevDependencies |-> TRUE,
          maxResults |-> input.maxResults]

\* the engine class registered for a language of the enumeration
EngineOf(language) == Registry(language)[2].engine.engine

\* the discoverPackages inputs that occur in an environment: the parsed
\* requests and what searchAffordances hands over
DiscoverInputs(e) ==
    {ParseDiscoverPackagesInput(a).input : a \in DiscoverRequests(e)}
      \cup {SearchAsDiscover(EngineOf(ParseSearchAffordancesInput(a).input.language),
                             ParseSearchAffordancesInput(a).input) : a \in SearchRequests(e)}

\* the packages array of every input in every environment, tabulated once:
\* <<environment, input, packages>>
PackagesTable ==
    {<<p[1], p[2], Packages(EngineOf(p[2].language), p[1], p[2])>> :
        p \in UNION {{<<e, i>> : i \in DiscoverInputs(e)} : e \in DiscoverEnvs}}

PackagesOf(e, input) == (CHOOSE r \in PackagesTable : r[1] = e /\ r[2] = input)[3]

\* enhancePackageInfo over the candidates, then searchPackagesSemanticaly; a
\* truthy description that is no string has no toLowerCase, and the call throws
Ranked(packages, input) ==
    IF \E i \in 1..Len(packages) : packages[i].description.kind = "other"
    THEN [threw |-> TRUE, message |-> "TypeError: (packageInfo.description || \"\").toLowerCase is not a function"]
    ELSE [threw |-> FALSE,
          packages |-> SearchPackagesSemanticaly(
                           input.query,
                           [i \in 1..Len(packages) |-> EnhancePackageInfo(packages[i], input.query)],
                           input.category, input.maxResults)]

\* the candidate lists and inputs of the JavaScript searchAffordances
JsSearchInputs ==
    {ParseSearchAffordancesInput(a).input :
        a \in UNION {SearchRequests(e) : e \in {x \in DiscoverEnvs : x.project = "javascript"}}}

JsCandidateLists ==
    {<<>>} \cup {Slice(r[3], 1000) : r \in {x \in PackagesTable : x[2].maxResults = 1000}}

\* <<candidates, input, outcome>>, tabulated once
RankedTable == {<<p[1], p[2], Ranked(p[1], p[2])>> : p \in JsCandidateLists \X JsSearchInputs}

RankedOf(packages, input) == (CHOOSE r \in RankedTable : r[1] = packages /\ r[2] = input)[3]

\* what an engine operation hands back: the Map afterwards and the value, or
\* the error it throws
Returned(m, key, value, hit) == [cache |-> m, key |-> key, value |-> value, hit |-> hit, threw |-> FALSE]

Thrown(m, key, message) == [cache |-> m, key |-> key, value |-> message, hit |-> FALSE, threw |-> TRUE]

\* this.cache.set(cacheKey, result); return result
StoreResult(m, opts, key, value, t) == Returned(SetResult(m, opts, key, value, {}, t), key, value, FALSE)

\* a discoverPackages that does not store the batch its catch block cut short
DiscoverSkipsFailure(engine, e, input, opts, t, key, cached) ==
    IF cached.found THEN Returned(cached.cache, key, cached.value, TRUE)
    ELSE LET result == DiscoveryResult(PackagesOf(e, input), input, EngineLanguage(engine), t)
         IN  IF e.packageJsonParses THEN StoreResult(cached.cache, opts, key, result, t)
             ELSE Returned(cached.cache, key, result, FALSE)

\* discoverPackages after the cache lookup
DiscoverLookedUp(engine, e, input, opts, t, key, cached) ==
    IF cached.found THEN Returned(cached.cache, key, cached.value, TRUE)
    ELSE StoreResult(cached.cache, opts, key,
                     DiscoveryResult(PackagesOf(e, input), input, EngineLanguage(engine), t), t)

DiscoverKeyed(engine, e, input, m, opts, t, key) ==
    DiscoverLookedUp(engine, e, input, opts, t, key, GetResult(m, key, t))

\* DiscoveryEngine.discoverPackages
DiscoverPackagesResult(engine, e, input, m, opts, t) ==
    DiscoverKeyed(engine, e, input, m, opts, t, DiscoverKey(engine, input))

\* the result JavaScriptDiscoveryEngine.searchAffordances builds and stores
SearchStored(input, opts, t, key, m, ranked) ==
    IF ranked.threw THEN Thrown(m, key, ranked.message)
    ELSE StoreResult(m, opts, key,
                     [packages |-> ranked.packages, totalFound |-> Len(ranked.packages),
                      searchTerm |-> input.query, language |-> input.language, timestamp |-> t], t)

SearchRanked(input, opts, t, key, all) ==
    SearchStored(input, opts, t, key, all.cache, RankedOf(all.value.packages, input))

\* JavaScriptDiscoveryEngine.searchAffordances after the cache lookup
SearchLookedUp(engine, e, input, opts, t, key, cached) ==
    IF cached.found THEN Returned(cached.cache, key, cached.value, TRUE)
    ELSE SearchRanked(input, opts, t, key,
                      DiscoverPackagesResult(engine, e, SearchAsDiscover(engine, input),
                                             cached.cache, opts, t))

SearchKeyed(engine, e, input, m, opts, t, key) ==
    SearchLookedUp(engine, e, input, opts, t, key, GetResult(m, key, t))

\* DiscoveryEngine.searchAffordances: the JavaScript engine ranks, the other
\* four delegate to discoverPackages with the query as search term
SearchAffordancesResult(engine, e, input, m, opts, t) ==
    IF engine = "JavaScriptDiscoveryEngine"
    THEN SearchKeyed(engine, e, input, m, opts, t, SearchKey(input))
    ELSE DiscoverPackagesResult(engine, e, SearchAsDiscover(engine, input), m, opts, t)

\* ------------------------------------------------------------------ introspectModule, by engine
ModuleExport(name, type) == [name |-> name, type |-> type]

ModuleInfo(name, path, exports, submodules, dependencies) ==
    [name |-> name, path |-> path, exports |-> exports, submodules |-> submodules,
     dependencies |-> dependencies]

\* the ModuleInfo of the catch blocks and of the engines that look nothing up
EmptyModuleInfo(moduleName) == ModuleInfo(moduleName, "", <<>>, <<>>, <<>>)

\* what the environment holds about a resolvable module: the exports the AST
\* parser finds, those a dynamic import shows, the keys of "exports" in the
\* package.json beside it, the other source files beside it, and the
\* dependencies its package.json declares
NoModule == [name |-> Null, ast |-> <<>>, imported |-> <<>>, packageExports |-> <<>>,
             files |-> <<>>, dependencies |-> <<>>]

ModuleFacts(e, moduleName) ==
    IF \E m \in e.moduleExports : m.name = moduleName
    THEN CHOOSE m \in e.moduleExports : m.name = moduleName
    ELSE NoModule

\* includePrivate || !exp.name.startsWith('_')
Visible(exports, includePrivate) ==
    SelectSeq(exports, LAMBDA x : includePrivate \/ ~StartsWith(x.name, "_"))

\* a variant that keeps the parser's exports and adds the loaded module's
ParsedAndImported(ast, imported) == ast \o imported

\* the AST result when it has exports, the dynamic import's entries otherwise
ParsedOrImported(ast, imported) == IF Len(ast) > 0 THEN ast ELSE imported

\* Object.keys(packageJson.exports) as namespace exports; '.' reads 'default'
ExportKeys(keys) ==
    [i \in 1..Len(keys) |-> ModuleExport(IF keys[i] = "." THEN "default" ELSE keys[i], "namespace")]

\* join(dirname(modulePath || ''), 'package.json'): beside the module, or in
\* the working directory when there is no module path
PackageJsonExports(e, facts, modulePath) ==
    IF modulePath # Null THEN ExportKeys(facts.packageExports)
    ELSE IF Cwd \in e.packageJsonDirs /\ e.packageJsonParses THEN ExportKeys(e.packageExports)
    ELSE <<>>

\* "Final fallback: try to read package.json exports"
OrPackageJsonExports(e, facts, modulePath, exports) ==
    IF Len(exports) = 0 THEN PackageJsonExports(e, facts, modulePath) ELSE exports

\* analyzeModuleExports for a module that has a path or none
AnalyzeFacts(e, facts, modulePath, includePrivate) ==
    OrPackageJsonExports(e, facts, modulePath,
        IF modulePath = Null THEN <<>>
        ELSE ParsedOrImported(Visible(facts.ast, includePrivate), Visible(facts.imported, includePrivate)))

\* analyzeModuleExports
AnalyzeModuleExports(e, moduleName, modulePath, includePrivate) ==
    IF IsNodeBuiltinModule(moduleName) THEN <<ModuleExport("default", "namespace")>>
    ELSE AnalyzeFacts(e, ModuleFacts(e, moduleName), modulePath, includePrivate)

\* findSubmodules
FindSubmodules(e, moduleName, modulePath) ==
    IF modulePath = Null THEN <<>> ELSE Slice(ModuleFacts(e, moduleName).files, 10)

\* getModuleDependencies
GetModuleDependencies(e, moduleName) ==
    IF moduleName \in InstalledUnder(e, Cwd) THEN ModuleFacts(e, moduleName).dependencies ELSE <<>>

\* the try block of JavaScriptDiscoveryEngine.introspectModule
IntrospectResolved(e, input, modulePath) ==
    ModuleInfo(input.moduleName, OrElse(modulePath, ""),
               AnalyzeModuleExports(e, input.moduleName, modulePath, input.includePrivate),
               FindSubmodules(e, input.moduleName, modulePath),
               GetModuleDependencies(e, input.moduleName))

IntrospectJs(e, input) == IntrospectResolved(e, input, ResolveModulePath(e, input.moduleName, Cwd))

\* what python shows of an importable module: its members, and its __file__
\* when it has one
NoPythonModule == [name |-> Null, members |-> <<>>, file |-> Null, importable |-> FALSE]

PythonFacts(e, moduleName) ==
    IF \E m \in e.pythonModules : m.name = moduleName
    THEN CHOOSE m \in e.pythonModules : m.name = moduleName
    ELSE NoPythonModule

\* getModuleExports: the script handed to python -c "..." holds
\* print(f"{name}|{obj_type}|{signature}"), so the shell ends the quoted
\* argument at the inner quote and reads the two '|' as pipes; the last
\* command of the pipeline is not found, execSync throws on the exit status,
\* and the catch block returns the list as it is, empty, whatever the module's
\* members are
GetModuleExports(facts) == SelectSeq(facts.members, LAMBDA x : FALSE)

\* getModulePath: the printed __file__, or null
GetModulePath(facts) == facts.file

\* the try block of PythonDiscoveryEngine.introspectModule
IntrospectPython(e, input) ==
    ModuleInfo(input.moduleName, OrElse(GetModulePath(PythonFacts(e, input.moduleName)), ""),
               GetModuleExports(PythonFacts(e, input.moduleName)), <<>>, <<>>)

\* the ModuleInfo each engine's introspectModule builds
Introspect(engine, e, input) ==
    CASE engine = "JavaScriptDiscoveryEngine" -> IntrospectJs(e, input)
      [] engine = "PythonDiscoveryEngine" -> IntrospectPython(e, input)
      [] engine = "RustDiscoveryEngine" -> EmptyModuleInfo(input.moduleName)
      [] engine = "GoDiscoveryEngine" -> EmptyModuleInfo(input.moduleName)
      [] engine = "JavaDiscoveryEngine" -> EmptyModuleInfo(input.moduleName)

\* IntrospectModuleInputSchema.parse
ParseIntrospectModuleInput(args) ==
    IF args.moduleName = Undefined THEN [threw |-> TRUE, message |-> "ZodError: moduleName: Required"]
    ELSE IF args.language # Undefined /\ args.language \notin LanguageEnum
         THEN [threw |-> TRUE, message |-> "ZodError: language: Invalid enum value"]
         ELSE IF ~NumberInRange(args.maxDepth, 1, 5)
              THEN [threw |-> TRUE, message |-> "ZodError: maxDepth: out of range"]
              ELSE [threw |-> FALSE,
                    input |-> [moduleName |-> args.moduleName,
                               language |-> IF args.language = Undefined THEN "javascript"
                                            ELSE args.language,
                               includePrivate |-> Given(args.includePrivate, FALSE),
                               maxDepth |-> Given(args.maxDepth, 2)]]

\* the cache key each engine's introspectModule uses
IntrospectKey(engine, input) ==
    CASE engine = "JavaScriptDiscoveryEngine" ->
           GenerateKey(<<"introspect", input.moduleName, input.language,
                         BoolStr(input.includePrivate), DecStr(input.maxDepth)>>)
      [] engine = "PythonDiscoveryEngine" -> GenerateKey(<<"introspect_python", input.moduleName>>)
      [] engine = "RustDiscoveryEngine" -> GenerateKey(<<"introspect_rust", input.moduleName>>)
      [] engine = "GoDiscoveryEngine" -> GenerateKey(<<"introspect_go", input.moduleName>>)
      [] engine = "JavaDiscoveryEngine" -> GenerateKey(<<"introspect_java", input.moduleName>>)

\* introspectModule after the cache lookup
IntrospectLookedUp(engine, e, input, opts, t, key, cached) ==
    IF cached.found THEN Returned(cached.cache, key, cached.value, TRUE)
    ELSE StoreResult(cached.cache, opts, key, Introspect(engine, e, input), t)

IntrospectKeyed(engine, e, input, m, opts, t, key) ==
    IntrospectLookedUp(engine, e, input, opts, t, key, GetResult(m, key, t))

\* DiscoveryEngine.introspectModule
IntrospectModuleResult(engine, e, input, m, opts, t) ==
    IntrospectKeyed(engine, e, input, m, opts, t, IntrospectKey(engine, input))

\* ------------------------------------------------------------------ server operations
ErrorResult(name, args, message) ==
    [op |-> "callTool", tool |-> name, args |-> args, isError |-> TRUE, value |-> message,
     key |-> Undefined, hit |-> FALSE, reads |-> {}, removed |-> {}]

\* the error an engine operation lets escape, as the handler's catch reports it
EngineFailure(name, args, r) ==
    [op |-> "callTool", tool |-> name, args |-> args, isError |-> TRUE, value |-> r.value,
     key |-> r.key, hit |-> FALSE, reads |-> {}, removed |-> Removed(cache, r.cache),
     thrownBy |-> "engine"]

\* the handler's answer for what the engine operation handed back
Respond(name, args, r) ==
    /\ cache' = r.cache
    /\ ret' = IF r.threw THEN EngineFailure(name, args, r)
              ELSE [op |-> "callTool", tool |-> name, args |-> args, isError |-> FALSE,
                    value |-> r.value, key |-> r.key, hit |-> r.hit, reads |-> {},
                    removed |-> Removed(cache, r.cache)]
    /\ UNCHANGED <<options, now, sweepDue, fs, inflight>>

\* the handler's answer for arguments the schema rejects
Reject(name, args, message) ==
    /\ ret' = ErrorResult(name, args, message)
    /\ UNCHANGED <<cache, options, now, sweepDue, fs, inflight>>

\* case 'discover_packages'
CallDiscoverParsed(args, parsed) ==
    IF parsed.threw THEN Reject("discover_packages", args, parsed.message)
    ELSE Respond("discover_packages", args,
                 DiscoverPackagesResult(EngineOf(parsed.input.language), fs, parsed.input,
                                        cache, options, now))

CallDiscoverPackages(args) == CallDiscoverParsed(args, ParseDiscoverPackagesInput(args))

\* case 'search_affordances'
CallSearchParsed(args, parsed) ==
    IF parsed.threw THEN Reject("search_affordances", args, parsed.message)
    ELSE Respond("search_affordances", args,
                 SearchAffordancesResult(EngineOf(parsed.input.language), fs, parsed.input,
                                         cache, options, now))

CallSearchAffordances(args) == CallSearchParsed(args, ParseSearchAffordancesInput(args))

\* case 'introspect_module'
CallIntrospectParsed(args, parsed) ==
    IF parsed.threw THEN Reject("introspect_module", args, parsed.message)
    ELSE Respond("introspect_module", args,
                 IntrospectModuleResult(EngineOf(parsed.input.language), fs, parsed.input,
                                        cache, options, now))

CallIntrospectModule(args) == CallIntrospectParsed(args, ParseIntrospectModuleInput(args))

\* case 'validate_import', the engine's validateImport included
CallValidateImport(args) ==
    LET name == "validate_import"
        parsed == ParseValidateImportInput(args) IN
         IF parsed.threw
         THEN /\ ret' = ErrorResult(name, args, parsed.message)
              /\ UNCHANGED <<cache, options, now, sweepDue, fs, inflight>>
         ELSE LET found == Registry(parsed.input.language)[2] IN
              IF found.threw
              THEN /\ ret' = ErrorResult(name, args, found.message)
                   /\ UNCHANGED <<cache, options, now, sweepDue, fs, inflight>>
              ELSE LET key == ValidateKey(found.engine.engine, parsed.input)
                       cached == GetResult(cache, key, now)
                       hit == cached.found
                       out == IF hit THEN [value |-> cached.value, reads |-> {}]
                              ELSE Computed(fs, args)
                       c == IF hit THEN cached.cache
                            ELSE SetResult(cached.cache, options, key, out.value, {}, now)
                   IN  /\ cache' = c
                       /\ ret' = [op |-> "callTool", tool |-> name, args |-> args, isError |-> FALSE,
                                  value |-> out.value, key |-> key, hit |-> hit,
                                  reads |-> out.reads, removed |-> Removed(cache, c)]
                       /\ UNCHANGED <<options, now, sweepDue, fs, inflight>>

\* the CallTool request handler
CallTool(name, args) ==
    CASE name = "validate_import" -> CallValidateImport(args)
      [] name = "discover_packages" -> CallDiscoverPackages(args)
      [] name = "search_affordances" -> CallSearchAffordances(args)
      [] name = "introspect_module" -> CallIntrospectModule(args)
      [] OTHER -> Reject(name, args, "Unknown tool: " \o name)

GetEngine(language) ==
    /\ ret' = [op |-> "getEngine", key |-> language, value |-> Registry(language)[2], removed |-> {}]
    /\ UNCHANGED <<cache, options, now, sweepDue, fs, inflight>>

IsLanguageSupported(language) ==
    /\ ret' = [op |-> "isLanguageSupported", key |-> language,
               value |-> Registry(language)[3], removed |-> {}]
    /\ UNCHANGED <<cache, options, now, sweepDue, fs, inflight>>

Init ==
    /\ cache = <<>>
    /\ options \in [ttl : {DefaultTtl}, maxSize : 1..MaxSize]
    /\ now = 0
    /\ sweepDue = FALSE
    /\ ret = NoRet
    /\ fs \in Envs
    /\ inflight = NoneInFlight

\* validation requests against the cache as time passes
Next ==
    \/ \E args \in Requests(fs) : CallTool("validate_import", args)
    \/ Cleanup
    \/ Tick

Spec == Init /\ [][Next]_vars

\* every kind of call on the registry and the adapter, at one instant
NextRegistry ==
    \/ \E args \in Requests(fs) \cup Malformed : CallTool("validate_import", args)
    \/ CallTool("no_such_tool", Request("import x", "javascript", Undefined))
    \/ \E language \in Languages : GetEngine(language)
    \/ \E language \in Languages : IsLanguageSupported(language)

SpecRegistry == Init /\ [][NextRegistry]_vars

\* discovery and search requests against the cache as time passes
InitDiscover ==
    /\ cache = <<>>
    /\ options \in [ttl : {DefaultTtl}, maxSize : 1..MaxSize]
    /\ now = 0
    /\ sweepDue = FALSE
    /\ ret = NoRet
    /\ fs \in DiscoverEnvs
    /\ inflight = NoneInFlight

NextDiscover ==
    \/ \E args \in DiscoverRequests(fs) \cup MalformedDiscover : CallTool("discover_packages", args)
    \/ \E args \in SearchRequests(fs) \cup MalformedSearch : CallTool("search_affordances", args)
    \/ Cleanup
    \/ Tick

SpecDiscover == InitDiscover /\ [][NextDiscover]_vars

\* introspection requests against the cache as time passes
InitIntrospect ==
    /\ cache = <<>>
    /\ options \in [ttl : {DefaultTtl}, maxSize : 1..MaxSize]
    /\ now = 0
    /\ sweepDue = FALSE
    /\ ret = NoRet
    /\ fs \in IntrospectEnvs
    /\ inflight = NoneInFlight

NextIntrospect ==
    \/ \E args \in IntrospectRequests(fs) \cup MalformedIntrospect : CallTool("introspect_module", args)
    \/ Cleanup
    \/ Tick

SpecIntrospect == InitIntrospect /\ [][NextIntrospect]_vars

\* ------------------------------------------------------------------ operations in flight
\* An async engine operation runs without interruption up to its first await
\* and again from its last await to its return; other callbacks (another
\* request, the sweep) run while it waits. The lookup comes before the first
\* await, and building the result, set() and the return come after the last.

\* whether validateImport waits between its lookup and its set(): the existence
\* test is awaited, the unparsable statement and the standard-library answer
\* of the Python, Rust, Go and Java engines return at once
ValidateAwaits(engine, outcome) ==
    IF engine = "JavaScriptDiscoveryEngine" THEN outcome.reads # {}
    ELSE outcome.reads \ {"stdlib"} # {}

\* whether discoverPackages waits between its lookup and its set(): the
\* JavaScript engine awaits getPackageInfo or getGlobalPackages unless the
\* manifest fails to parse, the Python engine awaits getInstalledPackages, the
\* other three have no await
DiscoverAwaits(engine, e) ==
    CASE engine = "JavaScriptDiscoveryEngine" ->
           FindManifest(Cwd, e.packageJsonDirs) = Null \/ e.packageJsonParses
      [] engine = "PythonDiscoveryEngine" -> TRUE
      [] OTHER -> FALSE

\* an operation as a caller starts it
Operation(tool, args, input, key, awaits) ==
    [tool |-> tool, args |-> args, input |-> input, key |-> key, awaits |-> awaits]

StartValidate(e, args, input) ==
    Operation("validate_import", args, input, ValidateKey(EngineOf(input.language), input),
              ValidateAwaits(EngineOf(input.language), Computed(e, args)))

StartDiscover(e, args, input) ==
    Operation("discover_packages", args, input, DiscoverKey(EngineOf(input.language), input),
              DiscoverAwaits(EngineOf(input.language), e))

\* the environments operations overlap in, and the operations callers start in each
ConcurrentEnvs == {JsEsm, RustCargo, PyPip, JsApp, JsBrokenManifest}

\* the statements and search terms of the requests that overlap
RacedStatements ==
    {"import requests", "import yaml", "use serde::Deserialize;", "use s::x;",
     "import e from 'express'", "import x from 'e'"}

RacedRequests(e) ==
    IF e \in Envs THEN {a \in Requests(e) : a.importStatement \in RacedStatements} ELSE {}

RacedDiscoverRequests(e) ==
    IF e \in DiscoverEnvs THEN {a \in DiscoverRequests(e) : a.searchTerm # Undefined} ELSE {}

Operations(e) ==
    {StartValidate(e, a, ParseValidateImportInput(a).input) : a \in RacedRequests(e)}
      \cup {StartDiscover(e, a, ParseDiscoverPackagesInput(a).input) : a \in RacedDiscoverRequests(e)}

\* the result an operation builds at time t after a miss
Outcome(e, op, t) ==
    IF op.tool = "validate_import" THEN Computed(e, op.args).value
    ELSE DiscoveryResult(PackagesOf(e, op.input), op.input,
                         EngineLanguage(EngineOf(op.input.language)), t)

Slot(pc, op, value, hit, raced) ==
    [pc |-> pc, tool |-> op.tool, args |-> op.args, key |-> op.key, value |-> value,
     hit |-> hit, raced |-> raced]

\* whether another caller waits on the same key
Racing(slots, c, key) == \E k \in Callers \ {c} : slots[k].pc = "awaiting" /\ slots[k].key = key

\* the callers after c has missed and starts to wait: c and whoever waits on
\* the same key are in flight at once
Waiting(slots, c, op) ==
    [k \in Callers |->
        IF k = c THEN Slot("awaiting", op, Undefined, FALSE, Racing(slots, c, op.key))
        ELSE IF slots[k].pc = "awaiting" /\ slots[k].key = op.key
             THEN [slots[k] EXCEPT !.raced = TRUE]
             ELSE slots[k]]

InFlightRet(name, c, key, value, m) ==
    [op |-> name, caller |-> c, key |-> key, value |-> value, removed |-> Removed(cache, m)]

\* caller c's operation up to its first await, given what the lookup found
BeginLookedUp(c, op, cached) ==
    IF cached.found
    THEN /\ cache' = cached.cache
         /\ inflight' = [inflight EXCEPT ![c] = Slot("returned", op, cached.value, TRUE, FALSE)]
         /\ ret' = InFlightRet("begin", c, op.key, cached.value, cached.cache)
    ELSE IF op.awaits
         THEN /\ cache' = cached.cache
              /\ inflight' = Waiting(inflight, c, op)
              /\ ret' = InFlightRet("begin", c, op.key, Undefined, cached.cache)
         ELSE /\ cache' = SetResult(cached.cache, options, op.key, Outcome(fs, op, now), {}, now)
              /\ inflight' = [inflight EXCEPT ![c] = Slot("returned", op, Outcome(fs, op, now), FALSE, FALSE)]
              /\ ret' = InFlightRet("begin", c, op.key, Outcome(fs, op, now),
                                    SetResult(cached.cache, options, op.key, Outcome(fs, op, now), {}, now))

Begin(c, op) ==
    /\ inflight[c].pc = "idle"
    /\ BeginLookedUp(c, op, GetResult(cache, op.key, now))
    /\ UNCHANGED <<options, now, sweepDue, fs>>

\* the operation a waiting caller started
OperationOf(e, slot) == CHOOSE op \in Operations(e) : op.tool = slot.tool /\ op.args = slot.args

\* caller c's operation from its last await: the result, set() and the return
FinishWith(c, value) ==
    /\ cache' = SetResult(cache, options, inflight[c].key, value, {}, now)
    /\ inflight' = [inflight EXCEPT ![c] = [@ EXCEPT !.pc = "returned", !.value = value]]
    /\ ret' = InFlightRet("finish", c, inflight[c].key, value,
                          SetResult(cache, options, inflight[c].key, value, {}, now))

Finish(c) ==
    /\ inflight[c].pc = "awaiting"
    /\ FinishWith(c, Outcome(fs, OperationOf(fs, inflight[c]), now))
    /\ UNCHANGED <<options, now, sweepDue, fs>>

\* the cache before the callers start: empty, or as one operation that ran on
\* its own at time 0 has left it
Earlier(e) ==
    {<<>>} \cup {SetResult(<<>>, [ttl |-> DefaultTtl, maxSize |-> 1], op.key, Outcome(e, op, 0), {}, 0) :
                    op \in Operations(e)}

InitConcurrent ==
    /\ fs \in ConcurrentEnvs
    /\ cache \in Earlier(fs)
    /\ options \in [ttl : {DefaultTtl}, maxSize : 1..MaxSize]
    /\ now = 0
    /\ sweepDue = FALSE
    /\ ret = NoRet
    /\ inflight = NoneInFlight

NextConcurrent ==
    \/ \E c \in Callers : \E op \in Operations(fs) : Begin(c, op)
    \/ \E c \in Callers : Finish(c)
    \/ Cleanup
    \/ Tick

SpecConcurrent == InitConcurrent /\ [][NextConcurrent]_vars

\* ------------------------------------------------------------------ external commands
\* one execSync call: the command line, and the texts taken from the request
\* that were interpolated into it
Exec(command, interpolated) == [command |-> command, interpolated |-> interpolated]

\* checkPackageInstalled
CheckPackageInstalledCommand(packageName) == "python -c \"import " \o packageName \o "\""

\* getModuleExports
GetModuleExportsCommand(moduleName) ==
    "python -c \"\nimport inspect\nimport " \o moduleName
      \o "\n\nmembers = inspect.getmembers(" \o moduleName \o ")\n"
      \o "for name, obj in members:\n    if not name.startswith('_'):\n"
      \o "        obj_type = 'function' if inspect.isfunction(obj) else 'class' if inspect.isclass(obj) else 'constant'\n"
      \o "        signature = str(inspect.signature(obj)) if inspect.isfunction(obj) else ''\n"
      \o "        print(f\"{name}|{obj_type}|{signature}\")\n      \""

\* getModulePath
GetModulePathCommand(moduleName) ==
    "python -c \"import " \o moduleName \o "; print(" \o moduleName \o ".__file__)\""

\* getInstalledPackages: pip, and conda when pip fails
GetInstalledPackagesCommands(e) ==
    IF e.pipWorks THEN <<Exec("pip list --format=json", <<>>)>>
    ELSE <<Exec("pip list --format=json", <<>>), Exec("conda list --json", <<>>)>>

\* the commands of PythonDiscoveryEngine.validateImport once the name is
\* extracted: none for an unparsable statement or a standard-library module,
\* the import test otherwise, and the package listing for its suggestions when
\* the import fails
PythonValidateCommands(e, packageName) ==
    IF packageName = Null \/ packageName \in SeqToSet(PYTHON_STDLIB_MODULES) THEN <<>>
    ELSE <<Exec(CheckPackageInstalledCommand(packageName), <<packageName>>)>>
           \o (IF packageName \in e.importable THEN <<>> ELSE GetInstalledPackagesCommands(e))

\* the commands validateImport runs after a cache miss, by engine
ValidateCommands(engine, e, input) ==
    IF engine = "PythonDiscoveryEngine"
    THEN PythonValidateCommands(e, ExtractPython(input.importStatement))
    ELSE <<>>

\* the commands introspectModule runs after a cache miss, by engine
IntrospectCommands(engine, input) ==
    IF engine = "PythonDiscoveryEngine"
    THEN <<Exec(GetModuleExportsCommand(input.moduleName), <<input.moduleName, input.moduleName>>),
           Exec(GetModulePathCommand(input.moduleName), <<input.moduleName, input.moduleName>>)>>
    ELSE <<>>

\* the statements and module names callers send
ShellStatements ==
    {"import requests", "import os.path", "from yaml import load", "import numpy.linalg as la",
     "import requests\"; touch x; echo \"", "import a-b", "import $(id)"}

ShellModules ==
    {"json", "sys", "os.path", "no_such_module", "json\"; touch x; echo \"", "a-b", "$(id)"}

ExecRet(tool, args, commands) ==
    [op |-> "execSync", tool |-> tool, args |-> args, key |-> Undefined, value |-> commands,
     removed |-> {}]

\* validateImport after a cache miss, as far as the shell sees it
RunValidate(args, input) ==
    /\ ret' = ExecRet("validate_import", args, ValidateCommands(EngineOf(input.language), fs, input))
    /\ UNCHANGED <<cache, options, now, sweepDue, fs, inflight>>

\* introspectModule after a cache miss, as far as the shell sees it
RunIntrospect(args, input) ==
    /\ ret' = ExecRet("introspect_module", args, IntrospectCommands(EngineOf(input.language), input))
    /\ UNCHANGED <<cache, options, now, sweepDue, fs, inflight>>

InitShell ==
    /\ cache = <<>>
    /\ options = [ttl |-> DefaultTtl, maxSize |-> MaxSize]
    /\ now = 0
    /\ sweepDue = FALSE
    /\ ret = NoRet
    /\ fs \in {PyPip, PyNone}
    /\ inflight = NoneInFlight

NextShell ==
    \/ \E st \in ShellStatements, l \in LanguageEnum :
          RunValidate(Request(st, l, Undefined), ParseValidateImportInput(Request(st, l, Undefined)).input)
    \/ \E m \in ShellModules, l \in LanguageEnum :
          RunIntrospect(IntrospectArgs(m, l, Omitted, Omitted),
                        ParseIntrospectModuleInput(IntrospectArgs(m, l, Omitted, Omitted)).input)

SpecShell == InitShell /\ [][NextShell]_vars

\* validation while the project directory changes under the server: the
\* package.json with its dependencies appears (npm init, npm install) or is
\* removed again between two requests
StaleEnvs == {Bare, JsEsm}

\* the requests sent before and after a change
StaleRequests ==
    {Request("import {describe} from 'vitest'", "javascript", Undefined),
     Request("import fs from 'fs'", Undefined, Undefined)}

\* the project directory changes; the server is not told
ProjectChanges ==
    /\ fs' = IF fs = Bare THEN JsEsm ELSE Bare
    /\ UNCHANGED <<cache, options, now, sweepDue, ret, inflight>>

InitStale ==
    /\ cache = <<>>
    /\ options \in [ttl : {DefaultTtl}, maxSize : 1..MaxSize]
    /\ now = 0
    /\ sweepDue = FALSE
    /\ ret = NoRet
    /\ fs \in StaleEnvs
    /\ inflight = NoneInFlight

NextStale ==
    \/ \E args \in StaleRequests : CallTool("validate_import", args)
    \/ ProjectChanges
    \/ Cleanup
    \/ Tick

SpecStale == InitStale /\ [][NextStale]_vars

\* the cache key on its own: the arguments callers may send with each tool
KeyTools == {"validate_import", "discover_packages", "introspect_module", "search_affordances"}

KeyLanguages == LanguageEnum \cup {Undefined}

KeyArgs(tool) ==
    CASE tool = "validate_import" ->
           {Request(st, l, pp) : st \in {"import fs from 'fs'", "use a::b",
                                         "import fs from 'fs':javascript"},
                                 l \in KeyLanguages, pp \in {Undefined, OtherRoot, "javascript"}}
      [] tool = "discover_packages" ->
           {DiscoverArgs(l, st, dev, n) : l \in KeyLanguages, st \in {Undefined, "a:b"},
                                          dev \in {Omitted, {TRUE}}, n \in {Omitted, {12}}}
      [] tool = "introspect_module" ->
           {IntrospectArgs("fs", l, priv, n) : l \in KeyLanguages, priv \in {Omitted, {TRUE}},
                                               n \in {Omitted, {5}}}
      [] tool = "search_affordances" ->
           {SearchArgs(q, l, c, n) : q \in {"http client", "a:b"}, l \in KeyLanguages,
                                     c \in {Undefined, "network"}, n \in {Omitted, {7}, {12}}}

\* the schema each case of the handler parses its arguments with
ParseInput(tool, args) ==
    CASE tool = "validate_import" -> ParseValidateImportInput(args)
      [] tool = "discover_packages" -> ParseDiscoverPackagesInput(args)
      [] tool = "introspect_module" -> ParseIntrospectModuleInput(args)
      [] tool = "search_affordances" -> ParseSearchAffordancesInput(args)

\* the key under which the engine's operation looks up and stores its result
KeyOf(tool, engine, input) ==
    CASE tool = "validate_import" -> ValidateKey(engine, input)
      [] tool = "discover_packages" -> DiscoverKey(engine, input)
      [] tool = "introspect_module" -> IntrospectKey(engine, input)
      [] tool = "search_affordances" ->
           IF engine = "JavaScriptDiscoveryEngine" THEN SearchKey(input)
           ELSE DiscoverKey(engine, SearchAsDiscover(engine, input))

InitKeys ==
    /\ cache = <<>>
    /\ options = [ttl |-> DefaultTtl, maxSize |-> MaxSize]
    /\ now = 0
    /\ sweepDue = FALSE
    /\ ret = NoRet
    /\ fs = Bare
    /\ inflight = NoneInFlight

\* the key one call builds from its parsed input
BuildKey(tool, args, input) ==
    /\ ret' = [op |-> "key", tool |-> tool, args |-> args, input |-> input, removed |-> {},
               value |-> Undefined, key |-> KeyOf(tool, EngineOf(input.language), input)]
    /\ UNCHANGED <<cache, options, now, sweepDue, fs, inflight>>

NextKeys == \E tool \in KeyTools : \E args \in KeyArgs(tool) : BuildKey(tool, args, ParseInput(tool, args).input)

SpecKeys == InitKeys /\ [][NextKeys]_vars

\* searchPackagesSemanticaly on its own: the records it may be handed
RankPool ==
    {PackageInfo("jest", TRUE, Text("Delightful JavaScript Testing.")),
     PackageInfo("mocha", TRUE, NoDescription),
     PackageInfo("chai", FALSE, NoDescription),
     PackageInfo("zzz", TRUE, NoDescription)}

\* the lists of up to MaxRecords different records
RankLists ==
    UNION {{q \in [1..n -> RankPool] : \A i, j \in 1..n : q[i] = q[j] => i = j} : n \in 0..MaxRecords}

RankQueries == {"jest", "qq"}

RankCategories == {"all", "testing"}

InitRank ==
    /\ cache = <<>>
    /\ options = [ttl |-> DefaultTtl, maxSize |-> MaxSize]
    /\ now = 0
    /\ sweepDue = FALSE
    /\ ret = NoRet
    /\ fs \in {[name |-> "records", records |-> q] : q \in RankLists}
    /\ inflight = NoneInFlight

\* the call of searchPackagesSemanticaly on the records at hand; the function
\* keeps no state, so one call is all a behaviour has to show
Rank(query, category, maxResults) ==
    /\ ret = NoRet
    /\ ret' = [op |-> "rank", key |-> Undefined, removed |-> {},
               args |-> [query |-> query, category |-> category, maxResults |-> maxResults],
               value |-> SearchPackagesSemanticaly(query, fs.records, category, maxResults)]
    /\ UNCHANGED <<cache, options, now, sweepDue, fs, inflight>>

NextRank ==
    \E query \in RankQueries, category \in RankCategories, maxResults \in 1..MaxRecords :
        Rank(query, category, maxResults)

SpecRank == InitRank /\ [][NextRank]_vars

\* scoring, categorizing and ranking while the clock runs and the cache holds
\* an entry or none
ScoreRet(name, args, value) == [op |-> name, key |-> Undefined, removed |-> {}, args |-> args, value |-> value]

\* a call of calculateSemanticScore
Score(query, record) ==
    /\ ret' = ScoreRet("score", [query |-> query, record |-> record], CalculateSemanticScore(query, record))
    /\ UNCHANGED <<cache, options, now, sweepDue, fs, inflight>>

\* a call of categorizePackage
Categorize(record) ==
    /\ ret' = ScoreRet("categorize", [record |-> record], CategorizePackage(record))
    /\ UNCHANGED <<cache, options, now, sweepDue, fs, inflight>>

InitScore ==
    /\ options = [ttl |-> DefaultTtl, maxSize |-> MaxSize]
    /\ cache \in {<<>>, SetResult(<<>>, options, "validate:import x:javascript", "v1", {}, 0)}
    /\ now = 0
    /\ sweepDue = FALSE
    /\ ret = NoRet
    /\ fs \in {[name |-> "records", records |-> q] : q \in {r \in RankLists : Len(r) = 1}}
    /\ inflight = NoneInFlight

NextScore ==
    \/ \E query \in RankQueries, record \in RankPool : Score(query, record)
    \/ \E record \in RankPool : Categorize(record)
    \/ \E query \in RankQueries, category \in RankCategories : Rank(query, category, 1)
    \/ Tick

SpecScore == InitScore /\ [][NextScore]_vars

\* ------------------------------------------------------------------ cache claims
\* a step of the named operation (Tick leaves ret alone and moves the clock)
Did(op) == ret'.op = op /\ now' = now

\* the entry for key k is stored and has not outlived its ttl
Live(m, k, t) == MapHas(m, k) /\ t - MapGet(m, k).timestamp <= MapGet(m, k).ttl

\* C1: the number of stored entries never exceeds maxSize, for any sequence of
\* set, get, has, delete, clear and sweep operations with arbitrary string keys.
C1_SizeWithinMaxSize == Len(cache) <= options.maxSize

\* C8: get(key) returns the stored value exactly when an entry for key exists
\* and now - createdAt <= ttl; otherwise it returns null, and an entry that
\* existed but had expired is removed by the read. has(key) is true exactly
\* when get(key) would return a value.
C8_GetHasByTtl ==
    [][ /\ Did("get") =>
             LET k == ret'.key IN
             /\ Live(cache, k, now) => ret'.value = MapGet(cache, k).data /\ cache' = cache
             /\ ~Live(cache, k, now) => ret'.value = Null /\ ~MapHas(cache', k)
             /\ Removed(cache, cache') \subseteq {k}
        /\ Did("has") =>
             LET k == ret'.key IN
             /\ ret'.value = Live(cache, k, now)
             /\ ~Live(cache, k, now) => ~MapHas(cache', k)
      ]_vars

\* C8 witness: a read of an expired entry returned null and removed the entry.
C8_Witness == ret.op = "get" /\ ret.value = Null /\ ret.removed = {ret.key}

\* C9: set evicts an entry only when inserting would otherwise make the number
\* of stored entries exceed maxSize, and then it evicts exactly one entry, the
\* oldest-inserted one; a set on a key that is already stored removes no other key.
C9_SetEvictsOnlyOnOverflow ==
    [][ Did("set") =>
          LET k == ret'.key
              overflow == ~MapHas(cache, k) /\ Len(cache) + 1 > options.maxSize
          IN  /\ overflow => Removed(cache, cache') = {cache[1].key}
              /\ ~overflow => Removed(cache, cache') = {}
      ]_vars

\* ------------------------------------------------------------------ validation claims
\* a validate_import call that reached an engine
Called == ret.op = "callTool" /\ ~ret.isError

\* the identifier the engine of the language extracts from a statement, or Null
Extracted(language, statement) ==
    CASE language = "javascript" -> ExtractJs(statement)
      [] language = "python" -> ExtractPython(statement)
      [] language = "rust" -> ExtractRust(statement)
      [] language = "go" -> ExtractGo(statement)
      [] language = "java" -> ExtractJava(statement)

\* no extraction pattern of the language matches the statement
NoPatternMatches(language, statement) ==
    CASE language = "javascript" -> JsMatch(statement) = Null
      [] language = "python" -> PyMatch(statement) = Null
      [] language = "rust" -> RustMatch(statement) = Null
      [] language = "go" -> GoMatch(statement) = Null
      [] language = "java" -> JavaMatch(statement) = Null

\* the standard-library registry of the language
StdlibRegistry(language) ==
    CASE language = "javascript" -> NODE_BUILTIN_MODULES
      [] language = "python" -> PYTHON_STDLIB_MODULES
      [] language = "rust" -> RUST_STDLIB_MODULES
      [] language = "go" -> GO_STDLIB_PACKAGES
      [] language = "java" -> JAVA_STDLIB_PACKAGES

JavaStdlibPrefixes == {"java.", "javax.", "org.w3c.", "org.xml.", "org.ietf."}

\* the identifier belongs to the standard library of the language
InStdlib(language, id) ==
    \/ id \in SeqToSet(StdlibRegistry(language))
    \/ language = "rust" /\ StartsWith(id, "std::")
    \/ language = "java" /\ \E p \in JavaStdlibPrefixes : StartsWith(id, p)

\* the names of the dependencies the engine of the language reads in environment e
DeclaredNames(e, language) ==
    CASE language = "javascript" ->
           IF FindManifest(Cwd, e.packageJsonDirs) # Null /\ e.packageJsonParses
           THEN MergedKeys(e.dependencies, e.devDependencies) ELSE <<>>
      [] language = "python" ->
           IF e.pipWorks THEN e.pipList ELSE IF e.condaWorks THEN e.condaList ELSE <<>>
      [] language = "rust" ->
           IF FindManifest(Cwd, e.cargoTomlDirs) # Null
           THEN MergedKeys(e.cargoDependencies, e.cargoDevDependencies) ELSE <<>>
      [] language = "go" -> IF FindManifest(Cwd, e.goModDirs) # Null THEN e.goRequire ELSE <<>>
      [] language = "java" -> IF FindManifest(Cwd, e.buildFileDirs) # Null THEN e.buildPackages ELSE <<>>

\* the identifier is declared as a dependency; for Java, a package lies under
\* the group id of a declared artifact
Declared(e, language, id) ==
    IF language = "java"
    THEN \E n \in SeqToSet(DeclaredNames(e, language)) :
            LET group == PartOrEmpty(n, 1) IN
            group # "" /\ (id = group \/ StartsWith(id, group \o "."))
    ELSE id \in SeqToSet(DeclaredNames(e, language))

\* what the claims need to know about each request in each environment, tabulated once
FactsTable ==
    {<<e, a, LET id == Extracted(a.language, a.importStatement) IN
             [id |-> id,
              noMatch |-> NoPatternMatches(a.language, a.importStatement),
              stdlib |-> id # Null /\ InStdlib(a.language, id),
              declared |-> id # Null /\ Declared(e, a.language, id)]>> :
        e \in Envs, a \in UNION {Requests(x) : x \in Envs}}

Facts == (CHOOSE t \in FactsTable : t[1] = fs /\ t[2] = ret.args)[3]

\* C2: for a fixed filesystem, a validate_import call whose entry is stored and
\* within its ttl is answered from that entry: it returns the stored outcome,
\* consults nothing and leaves the cache as it is. Every call leaves the
\* outcome it returned stored under its key, and that outcome is the one a
\* cold call computes, so a repeated call within the ttl returns the same outcome.
C2_RepeatAnsweredFromCache ==
    [][ (Did("callTool") /\ ~ret'.isError) =>
          LET k == ret'.key IN
          /\ Live(cache, k, now) =>
               /\ ret'.hit
               /\ ret'.reads = {}
               /\ ret'.value = MapGet(cache, k).data
               /\ cache' = cache
          /\ MapHas(cache', k) /\ MapGet(cache', k).data = ret'.value
          /\ ret'.value = Computed(fs, ret'.args).value
      ]_vars

\* C2 witness: a call was answered from the cache.
C2_Witness == Called /\ ret.hit /\ ret.reads = {}

\* C3 as stated: in every engine an identifier declared in the located manifest
\* is valid, with packageName equal to it and no suggestions.
C3_DeclaredIsValid ==
    (Called /\ Facts.declared) =>
        /\ ret.value.valid
        /\ ret.value.packageName = Facts.id
        /\ "suggestions" \notin DOMAIN ret.value

\* C3 amended: in the Rust, Go and Java engines a declared identifier is valid,
\* with packageName equal to it and no suggestions. The JavaScript engine does
\* not read the manifest to decide: an identifier is valid exactly when it is a
\* built-in module, a directory under the project root's node_modules, or
\* resolvable from the project root. The Python engine has no manifest: an
\* identifier is valid exactly when it is a standard-library module or importable.
C3_DeclaredOrInstalledIsValid ==
    (Called /\ Facts.id # Null) =>
        LET language == ret.args.language
            id == Facts.id
            root == IF ret.args.projectPath = Undefined THEN Cwd ELSE ret.args.projectPath
        IN  /\ (language \in {"rust", "go", "java"} /\ Facts.declared) =>
                  /\ ret.value.valid
                  /\ ret.value.packageName = id
                  /\ "suggestions" \notin DOMAIN ret.value
            /\ language = "javascript" =>
                  ret.value.valid = (Facts.stdlib \/ id \in fs.nodeModules[root] \/ id \in fs.resolvable[root])
            /\ language = "python" =>
                  ret.value.valid = (Facts.stdlib \/ id \in fs.importable)

\* C3 witness: a declared JavaScript package that is not installed was reported invalid.
C3_Witness ==
    Called /\ ret.args.language = "javascript" /\ Facts.declared /\ ~ret.value.valid

\* C4: valid=true is returned only for identifiers that are standard-library
\* identifiers or declared in the manifest.
C4_ValidOnlyIfStdlibOrDeclared ==
    (Called /\ Facts.id # Null /\ ret.value.valid) => (Facts.stdlib \/ Facts.declared)

C6_UnparsedIsUnknown ==
    (Called /\ Facts.noMatch) =>
        /\ ret.value.valid = FALSE
        /\ ret.value.packageName = "unknown"
        /\ StartsWith(ret.value.reason, "Could not parse")
        /\ ret.value.suggestions = <<>>
        /\ ret.reads = {}

\* C6 witness: an unparseable statement was handled by an engine, not by the cache.
C6_Witness == Called /\ Facts.noMatch /\ ~ret.hit

\* C7: for an unresolved identifier the suggestions are at most 5, each a
\* declared dependency or a standard-library identifier that contains the
\* target or is contained in it, the declared ones before the standard-library ones.
C7_SuggestionsBounded ==
    (Called /\ Facts.id # Null /\ ~ret.value.valid) =>
        LET sug == ret.value.suggestions
            declared == SeqToSet(DeclaredNames(fs, ret.args.language))
            stdlib == SeqToSet(StdlibRegistry(ret.args.language))
        IN  /\ Len(sug) <= 5
            /\ \A i \in 1..Len(sug) :
                  Includes(sug[i], Facts.id) \/ Includes(Facts.id, sug[i])
            /\ \E k \in 0..Len(sug) :
                  /\ \A i \in 1..k : sug[i] \in declared
                  /\ \A i \in (k + 1)..Len(sug) : sug[i] \in stdlib

\* C7 witness: five suggestions, declared dependencies first, standard-library
\* identifiers after them.
C7_Witness ==
    /\ Called /\ Facts.id # Null /\ ~ret.value.valid
    /\ Len(ret.value.suggestions) = 5
    /\ ret.value.suggestions[1] \in SeqToSet(DeclaredNames(fs, ret.args.language))
    /\ ret.value.suggestions[5] \notin SeqToSet(DeclaredNames(fs, ret.args.language))

\* ------------------------------------------------------------------ registry claims
Supported == {"javascript", "python", "rust", "go", "java"}

\* C10: the registry resolves exactly the five identifiers, compared without
\* regard to case, each to the engine of that language holding the one injected
\* cache; for any other identifier getEngine throws an unsupported-language
\* error, isLanguageSupported is false and a tool call is answered with an
\* error result. A tool call that reaches an engine leaves its outcome in that cache.
C10_RegistryResolvesFive ==
    /\ ret.op = "getEngine" =>
          IF ToLowerCase(ret.key) \in Supported
          THEN /\ ~ret.value.threw
               /\ ret.value.engine.key = ToLowerCase(ret.key)
               /\ ret.value.engine.cache = SharedCache
          ELSE /\ ret.value.threw
               /\ ret.value.message = "Unsupported language: " \o ret.key
    /\ ret.op = "isLanguageSupported" => (ret.value = (ToLowerCase(ret.key) \in Supported))
    /\ ret.op = "callTool" =>
          /\ (ret.args.language # Undefined /\ ToLowerCase(ret.args.language) \notin Supported)
                => ret.isError
          /\ ~ret.isError => MapHas(cache, ret.key)

\* C10 witness: a tool call for an unknown language was answered with an error result.
C10_Witness ==
    ret.op = "callTool" /\ ret.tool = "validate_import" /\ ret.args.language = "ruby" /\ ret.isError

\* ------------------------------------------------------------------ discovery claims
\* a discover_packages call that an engine answered
Discovered == ret.op = "callTool" /\ ret.tool = "discover_packages" /\ ~ret.isError

\* a search_affordances call that an engine answered
Searched == ret.op = "callTool" /\ ret.tool = "search_affordances" /\ ~ret.isError

\* the input the schema makes of the arguments of the last discover_packages call
DiscoverInput == ParseDiscoverPackagesInput(ret.args).input

\* the input the schema makes of the arguments of the last search_affordances call
SearchInput == ParseSearchAffordancesInput(ret.args).input

\* the names of a list of package records
Names(packages) == {packages[i].name : i \in 1..Len(packages)}

\* the names a manifest declares for development only
DevOnly(e) ==
    CASE e.project = "javascript" -> SeqToSet(e.devDependencies) \ SeqToSet(e.dependencies)
      [] e.project = "rust" -> SeqToSet(e.cargoDevDependencies) \ SeqToSet(e.cargoDependencies)
      [] OTHER -> {}

\* C11: apart from the unsupported-language error, no engine operation lets a
\* failure escape: every call the schema accepts is answered with a result value.
C11_NoFailureEscapes == ret.op = "callTool" => "thrownBy" \notin DOMAIN ret

\* C12: discoverPackages returns at most maxResults records, and with a search
\* term every returned name contains the term, compared without regard to case.
C12_BoundedAndMatching ==
    Discovered =>
        /\ Len(ret.value.packages) <= DiscoverInput.maxResults
        /\ DiscoverInput.searchTerm # Undefined =>
              \A n \in Names(ret.value.packages) :
                  Includes(ToLowerCase(n), ToLowerCase(DiscoverInput.searchTerm))

\* C12 witness: a search term in capitals matched more names than maxResults
\* allows, and the answer was cut to maxResults.
C12_Witness ==
    /\ Discovered /\ ~ret.hit
    /\ DiscoverInput.searchTerm = "JEST"
    /\ Len(ret.value.packages) = DiscoverInput.maxResults
    /\ Names(ret.value.packages) = {"jest"}

\* C13: with includeDevDependencies false no package declared for development
\* only is returned by discoverPackages.
C13_DevOnlyExcluded ==
    (Discovered /\ ~DiscoverInput.includeDevDependencies) =>
        Names(ret.value.packages) \cap DevOnly(fs) = {}

\* the candidates the claims speak of: what discoverPackages of the language
\* returns for an empty search term
Candidates(e, language) ==
    Packages(EngineOf(language), e,
             [language |-> language, searchTerm |-> "", includeDevDependencies |-> TRUE,
              maxResults |-> 1000])

\* the scores of a list of records run from high to low
Descending(query, packages) ==
    \A k \in 1..(Len(packages) - 1) :
        CalculateSemanticScore(query, packages[k]) >= CalculateSemanticScore(query, packages[k + 1])

\* C14: in every engine searchAffordances answers with candidates that
\* discoverPackages yields for an empty search term, keeps only those the
\* category filter admits, orders them by descending score and returns at most
\* maxResults of them.
C14_SearchRanksCandidates ==
    Searched =>
        /\ Len(ret.value.packages) <= SearchInput.maxResults
        /\ Names(ret.value.packages) \subseteq Names(Candidates(fs, SearchInput.language))
        /\ \A k \in 1..Len(ret.value.packages) :
              InCategory(ret.value.packages[k], SearchInput.category)
        /\ Descending(SearchInput.query, ret.value.packages)

\* the located manifest cannot be read or does not parse
ManifestBroken(e) == ~e.packageJsonParses \/ ~e.manifestReadable

\* the same project with a readable manifest that declares no dependencies
DeclaringNothing(e) ==
    [e EXCEPT !.packageJsonParses = TRUE, !.manifestReadable = TRUE,
              !.dependencies = <<>>, !.devDependencies = <<>>,
              !.cargoDependencies = <<>>, !.cargoDevDependencies = <<>>,
              !.goRequire = <<>>, !.buildPackages = <<>>]

\* C19: when the located manifest is unreadable or malformed, discoverPackages
\* answers as it does for a manifest that declares no dependencies: the
\* standard-library matches and the globally installed packages are returned
\* all the same.
C19_BrokenManifestIsEmpty ==
    (Discovered /\ ManifestBroken(fs)) =>
        ret.value.packages =
            Slice(Packages(EngineOf(DiscoverInput.language), DeclaringNothing(fs), DiscoverInput),
                  DiscoverInput.maxResults)

\* a DiscoveryResult without its timestamp
Content(result) ==
    [packages |-> result.packages, totalFound |-> result.totalFound,
     searchTerm |-> result.searchTerm, language |-> result.language]

\* C20 as stated: two discoverPackages calls with the same input, with no other
\* call between them, return the same DiscoveryResult, whether the second is
\* served from the cache or recomputed.
C20_SameBatch ==
    [][(Discovered /\ Discovered' /\ ret'.args = ret.args) => ret'.value = ret.value]_vars

\* C20, amended: the packages, totalFound, searchTerm and language of every
\* discoverPackages answer are those a cold computation makes of the input and
\* the project directory, so any two calls with the same input agree on them;
\* the timestamp is the time of the computation that made the answer.
C20_SameContent ==
    Discovered =>
        /\ Content(ret.value) =
              Content(DiscoveryResult(PackagesOf(fs, DiscoverInput), DiscoverInput,
                                      DiscoverInput.language, 0))
        /\ ret.value.timestamp <= now

\* C20 witness: a non-empty answer recomputed after the clock had advanced.
C20_Witness ==
    /\ Discovered /\ ~ret.hit
    /\ ret.value.timestamp = MaxTime
    /\ Len(ret.value.packages) > 0

\* ------------------------------------------------------------------ ranking claims
\* a call of searchPackagesSemanticaly returned
Ranking == ret.op = "rank"

\* where a record stands in the list that was ranked
Position(record) == CHOOSE i \in 1..Len(fs.records) : fs.records[i] = record

\* a lower-cased name or description contains a keyword of the category
MatchesCategory(record, category) ==
    \E k \in SeqToSet(CategoryKeywords(category)) :
        \/ Includes(ToLowerCase(record.name), k)
        \/ Includes(ToLowerCase(record.description.text), k)

\* C15: the list searchPackagesSemanticaly returns holds only records of the
\* input whose score is above 0 and, under a category other than 'all', whose
\* name or description contains a keyword of the category; it runs by
\* descending score, records of equal score in their original order; and it
\* has at most maxResults entries.
C15_RankSound ==
    Ranking =>
        LET out == ret.value
            score == [k \in 1..Len(out) |-> CalculateSemanticScore(ret.args.query, out[k])]
        IN  /\ Len(out) <= ret.args.maxResults
            /\ \A k \in 1..Len(out) :
                  /\ out[k] \in SeqToSet(fs.records)
                  /\ score[k] > 0
                  /\ ret.args.category # "all" => MatchesCategory(out[k], ret.args.category)
            /\ \A k \in 1..(Len(out) - 1) :
                  \/ score[k] > score[k + 1]
                  \/ score[k] = score[k + 1] /\ Position(out[k]) < Position(out[k + 1])

\* C15 witness: under the category 'testing' the answer has maxResults
\* entries, leaves a record of the input out, and holds two records of
\* different score and two of equal score.
C15_Witness ==
    /\ Ranking /\ ret.args.category = "testing"
    /\ Len(ret.value) = ret.args.maxResults
    /\ Len(ret.value) = 3 /\ Len(fs.records) = 4
    /\ CalculateSemanticScore(ret.args.query, ret.value[1])
         > CalculateSemanticScore(ret.args.query, ret.value[2])
    /\ CalculateSemanticScore(ret.args.query, ret.value[2])
         = CalculateSemanticScore(ret.args.query, ret.value[3])

\* ------------------------------------------------------------------ introspection claims
\* an introspect_module call that an engine answered
Introspected == ret.op = "callTool" /\ ret.tool = "introspect_module" /\ ~ret.isError

\* C16: a ModuleInfo whose path is "", the module's location not having been
\* resolved, has no exports, in every engine.
C16_UnresolvedIsEmpty == (Introspected /\ ret.value.path = "") => ret.value.exports = <<>>

\* ------------------------------------------------------------------ key claims
\* a key was built
Keyed == ret.op = "key"

\* the parts of a key that are not undefined
Defined(parts) == SelectSeq(parts, LAMBDA x : x # Undefined)

\* all input fields of an operation, in the order of its schema
AllFields(tool, input) ==
    CASE tool = "validate_import" -> <<input.importStatement, input.language, input.projectPath>>
      [] tool = "discover_packages" ->
           <<input.language, input.searchTerm, BoolStr(input.includeDevDependencies),
             DecStr(input.maxResults)>>
      [] tool = "introspect_module" ->
           <<input.moduleName, input.language, BoolStr(input.includePrivate), DecStr(input.maxDepth)>>
      [] tool = "search_affordances" ->
           <<input.query, input.language, input.category, DecStr(input.maxResults)>>

\* the names the engines put at the head of their keys
OperationNames ==
    {"validate", "discover", "introspect", "searchAffordances"}
      \cup {op \o "_" \o l : op \in {"validate", "discover", "introspect"},
                             l \in LanguageEnum \ {"javascript"}}

\* C18 as stated: every key is an operation name and all input fields of the
\* operation, joined with ':', only undefined fields left out.
C18_AllFieldsInKey ==
    Keyed => \E name \in OperationNames :
                ret.key = Join(<<name>> \o Defined(AllFields(ret.tool, ret.input)), ":")

\* the operation name and the fields each engine's key is made of
KeyName(tool, language) ==
    IF language = "javascript"
    THEN CASE tool = "validate_import" -> "validate"
           [] tool = "discover_packages" -> "discover"
           [] tool = "introspect_module" -> "introspect"
           [] tool = "search_affordances" -> "searchAffordances"
    ELSE CASE tool = "validate_import" -> "validate_" \o language
           [] tool = "discover_packages" -> "discover_" \o language
           [] tool = "introspect_module" -> "introspect_" \o language
           [] tool = "search_affordances" -> "discover_" \o language

KeyFields(tool, input) ==
    IF input.language = "javascript" THEN AllFields(tool, input)
    ELSE CASE tool = "validate_import" -> <<input.importStatement>>
           [] tool = "discover_packages" ->
                <<input.searchTerm, BoolStr(input.includeDevDependencies), DecStr(input.maxResults)>>
           [] tool = "introspect_module" -> <<input.moduleName>>
           [] tool = "search_affordances" -> <<input.query, "true", DecStr(input.maxResults)>>

\* C18, amended: every key is the parts handed to generateKey joined with ':',
\* only undefined parts left out. The JavaScript engine hands over the operation
\* name and all input fields; the other engines hand over a name that carries
\* the language and, of the input, importStatement for validateImport,
\* moduleName for introspectModule, and searchTerm, includeDevDependencies and
\* maxResults for discoverPackages, under whose key their searchAffordances
\* runs with the query as search term.
C18_KeyOfReadFields ==
    Keyed => ret.key = Join(<<KeyName(ret.tool, ret.input.language)>>
                              \o Defined(KeyFields(ret.tool, ret.input)), ":")

\* C18 witness: a Rust validation with a project path, whose key holds the
\* statement alone.
C18_Witness ==
    /\ Keyed /\ ret.tool = "validate_import" /\ ret.input.language = "rust"
    /\ ret.input.projectPath = OtherRoot
    /\ ret.key = "validate_rust:use a::b"

\* what tells two requests apart: the engine that serves them, the operation,
\* and the input fields the engine's operation reads
RequestOf(r) == <<EngineOf(r.input.language), r.tool, KeyFields(r.tool, r.input)>>

\* C26: two requests that differ in engine, in operation or in an input field
\* that affects the result never have the same cache key.
C26_KeysSeparateRequests ==
    [][(Keyed /\ Keyed' /\ ret'.key = ret.key) => RequestOf(ret') = RequestOf(ret)]_vars

\* C26, within the JavaScript engine's validateImport: two calls that differ in
\* the statement or in the project path never have the same cache key.
C26_JsValidateKeys ==
    [][(/\ Keyed /\ Keyed' /\ ret'.key = ret.key
        /\ ret.tool = "validate_import" /\ ret'.tool = "validate_import"
        /\ ret.input.language = "javascript" /\ ret'.input.language = "javascript")
       => ret'.input = ret.input]_vars

\* ------------------------------------------------------------------ concurrency claims
\* both callers missed on the same key while the other was waiting, and both
\* have returned
BothReturned ==
    /\ \A c \in Callers : inflight[c].pc = "returned" /\ inflight[c].raced
    /\ inflight[1].key = inflight[2].key

\* the later of the two has just written and returned
AfterBothWrote == BothReturned /\ ret.op = "finish"

EntriesFor(key) == {i \in 1..Len(cache) : cache[i].key = key}

\* equal but for the time of computation a DiscoveryResult carries
EqualButTimestamp(tool, v, w) ==
    IF tool = "discover_packages" THEN Content(v) = Content(w) ELSE v = w

\* C17 as stated: two operations with the same key that are in flight at once
\* and both miss return equal outcomes, the later write leaves one entry for
\* the key holding that outcome, and the cache never holds more than maxSize
\* entries, however the two and the sweep interleave.
C17_EqualOutcomes ==
    /\ Len(cache) <= options.maxSize
    /\ BothReturned => inflight[1].value = inflight[2].value
    /\ AfterBothWrote =>
          /\ Cardinality(EntriesFor(ret.key)) = 1
          /\ \A c \in Callers : MapGet(cache, ret.key).data = inflight[c].value

\* C17, amended: the two outcomes are equal, but for the timestamp of a
\* DiscoveryResult, which is each operation's own time of building it; the
\* later write leaves one entry for the key, holding the later writer's
\* outcome; the cache never holds more than maxSize entries.
C17_LastWriteWins ==
    /\ Len(cache) <= options.maxSize
    /\ BothReturned => EqualButTimestamp(inflight[1].tool, inflight[1].value, inflight[2].value)
    /\ AfterBothWrote =>
          /\ Cardinality(EntriesFor(ret.key)) = 1
          /\ MapGet(cache, ret.key).data = inflight[ret.caller].value
          /\ MapGet(cache, ret.key).data = ret.value

\* two discoverPackages calls raced with the clock moving between their
\* writes, and the later write evicted the entry that was there before them
C17_Witness ==
    /\ AfterBothWrote
    /\ inflight[1].tool = "discover_packages"
    /\ inflight[1].value.timestamp # inflight[2].value.timestamp
    /\ Cardinality(ret.removed) = 1
    /\ options.maxSize = MaxSize

\* ------------------------------------------------------------------ scoring claims
\* the cache, its options, the records at hand and the callers are as they were
SameState == UNCHANGED <<cache, options, sweepDue, fs, inflight>>

\* the call repeats the arguments of the call before it
Repeats(op) == ret.op = op /\ ret.args = ret'.args

NearMatches(names, target) == {n \in SeqToSet(names) : Includes(n, target) \/ Includes(target, n)}

\* C22: for an unresolved identifier, when fewer than 5 identifiers among the
\* declared dependencies and the standard-library registry contain the target
\* or are contained in it, every one of them is among the suggestions.
C22_EveryCandidateSuggested ==
    (Called /\ Facts.id # Null /\ ~ret.value.valid) =>
        LET near == NearMatches(DeclaredNames(fs, ret.args.language), Facts.id)
                      \cup NearMatches(StdlibRegistry(ret.args.language), Facts.id)
        IN  Cardinality(near) < 5 => near \subseteq SeqToSet(ret.value.suggestions)

\* ------------------------------------------------------------------ eviction order claims
\* key x was inserted before key y
InsertedBefore(m, x, y) == MapIndex(m, x) < MapIndex(m, y)

\* the keys stored in both Maps stand in the same order in both
SameOrder(m, m2) ==
    \A x, y \in MapKeys(m) \cap MapKeys(m2) : InsertedBefore(m, x, y) <=> InsertedBefore(m2, x, y)

\* C23: a set on a key that is already stored leaves the insertion order of the
\* stored keys as it was, in a full cache as in any other.
C23_ResetKeepsOrder ==
    [][ (Did("set") /\ MapHas(cache, ret'.key)) => SameOrder(cache, cache') ]_vars

\* ------------------------------------------------------------------ sweep claims
\* the positions of the entries that have not outlived their ttl at time t
Unexpired(m, t) == {i \in 1..Len(m) : ~(t - m[i].timestamp > m[i].ttl)}

\* C24: the sweep, due once per interval of ttl/2 whatever the requests do,
\* removes every entry with now - timestamp > ttl and nothing else: the
\* entries within their ttl stay, with their values and timestamps, in the
\* order they had.
C24_SweepRemovesExpiredOnly ==
    [][ Did("cleanup") =>
          /\ Len(cache') = Cardinality(Unexpired(cache, now))
          /\ \A i \in Unexpired(cache, now) :
                cache'[Cardinality({j \in Unexpired(cache, now) : j <= i})] = cache[i] ]_vars

\* a sweep removed one entry and left another, which is at the very end of its ttl
C24_Witness ==
    /\ ret.op = "cleanup" /\ Cardinality(ret.removed) = 1
    /\ ~sweepDue
    /\ Len(cache) = 1
    /\ cache[1].timestamp + cache[1].ttl = now

\* ------------------------------------------------------------------ export strategy claims
\* the JavaScript engine answered an introspect_module call
IntrospectedJs ==
    /\ Introspected
    /\ EngineOf(ParseIntrospectModuleInput(ret.args).input.language) = "JavaScriptDiscoveryEngine"

\* what each strategy yields on its own for a module, in the fixed order:
\* the standard-library namespace, the parser's visible exports, the loaded
\* module's visible exports, the keys of the package manifest's exports map
Strategies(e, moduleName, modulePath, includePrivate) ==
    <<IF IsNodeBuiltinModule(moduleName) THEN <<ModuleExport("default", "namespace")>> ELSE <<>>,
      IF modulePath = Null THEN <<>> ELSE Visible(ModuleFacts(e, moduleName).ast, includePrivate),
      IF modulePath = Null THEN <<>> ELSE Visible(ModuleFacts(e, moduleName).imported, includePrivate),
      PackageJsonExports(e, ModuleFacts(e, moduleName), modulePath)>>

\* the yield of the first strategy that yields anything
FirstSuccess(strategies) ==
    IF \A i \in 1..Len(strategies) : strategies[i] = <<>> THEN <<>>
    ELSE strategies[CHOOSE i \in 1..Len(strategies) :
                        /\ strategies[i] # <<>>
                        /\ \A j \in 1..(i - 1) : strategies[j] = <<>>]

StrategiesOf(e, input) ==
    Strategies(e, input.moduleName, ResolveModulePath(e, input.moduleName, Cwd), input.includePrivate)

Validating ==
    /\ ret'.op = "callTool" /\ ret'.tool = "validate_import" /\ ~ret'.isError
    /\ now' = now /\ fs' = fs /\ sweepDue' = sweepDue

\* the call recomputed its outcome from the project directory as it is now and
\* stored it under its key with the time of the call
Recomputed ==
    /\ ~ret'.hit
    /\ ret'.value = Computed(fs, ret'.args).value
    /\ MapHas(cache', ret'.key)
    /\ MapGet(cache', ret'.key).data = ret'.value
    /\ MapGet(cache', ret'.key).timestamp = now

\* the call was answered with the stored outcome, which is still there, no
\* older than its ttl
ServedFromCache ==
    /\ ret'.hit
    /\ MapHas(cache, ret'.key)
    /\ now - MapGet(cache, ret'.key).timestamp <= MapGet(cache, ret'.key).ttl
    /\ ret'.value = MapGet(cache, ret'.key).data
    /\ cache' = cache

\* C27: while the project directory changes, a call is answered with a stored
\* outcome only while its entry is in the cache and no older than the ttl; a
\* call made more than ttl after the entry was written, or after the entry was
\* evicted or swept, recomputes from the current state and replaces the entry.
C27_StalenessBounded ==
    [][Validating =>
         /\ ServedFromCache \/ Recomputed
         /\ (MapHas(cache, ret'.key) /\ now - MapGet(cache, ret'.key).timestamp > DefaultTtl)
               => Recomputed]_vars

\* C27 witness: after package.json appeared, the outcome computed without it
\* was returned from an entry in the last instant of its ttl.
C27_Witness ==
    /\ ret.op = "callTool" /\ ret.hit /\ fs = JsEsm
    /\ ret.key = "validate:import {describe} from 'vitest':javascript"
    /\ ret.value = Computed(Bare, ret.args).value
    /\ ret.value # Computed(JsEsm, ret.args).value
    /\ MapHas(cache, ret.key)
    /\ now - MapGet(cache, ret.key).timestamp = DefaultTtl

\* C27 witness of the other half: the outcome was recomputed with package.json
\* in place at the last instant, when every entry written earlier has expired
\* or gone.
C27_Recomputed ==
    /\ ret.op = "callTool" /\ ~ret.hit /\ fs = JsEsm /\ now = MaxTime
    /\ ret.key = "validate:import {describe} from 'vitest':javascript"
    /\ ret.value = Computed(JsEsm, ret.args).value
    /\ MapGet(cache, ret.key).timestamp = now

\* ------------------------------------------------------------------ failure outcome claims
\* a discover_packages call is answered in this step, in a project whose
\* manifest cannot be read or parsed
DiscoveringBroken ==
    /\ ret'.op = "callTool" /\ ret'.tool = "discover_packages" /\ ~ret'.isError
    /\ now' = now
    /\ ManifestBroken(fs)

\* the entry under the key of the call, stored and no older than its ttl
Fresh(m, key, t) == MapHas(m, key) /\ ~Expired(MapGet(m, key), t)

C29_EvictionIgnoresExpiry ==
    [][/\ (Did("set") /\ Len(cache) >= options.maxSize) =>
            /\ ret'.removed = {cache[1].key} \ {ret'.key}
            /\ Len(cache') <= options.maxSize
       /\ Did("stats") => ret'.value.size = Len(cache)]_vars

\* ------------------------------------------------------------------ command line claims
\* every character of the text is one of [A-Za-z0-9_]
IdentifierOnly(text) == \A i \in 1..Len(text) : Char(text, i) \in IdentChars

\* C30: every text of a request that an engine puts into a command line it
\* hands to the shell consists of the characters [A-Za-z0-9_] only.
C30_OnlyIdentifiersReachShell ==
    ret.op = "execSync" =>
        \A i \in 1..Len(ret.value) :
            \A j \in 1..Len(ret.value[i].interpolated) : IdentifierOnly(ret.value[i].interpolated[j])

\* C30 for validateImport alone: the package name in the import test is an
\* identifier.
C30_ValidateIsSafe ==
    (ret.op = "execSync" /\ ret.tool = "validate_import") =>
        \A i \in 1..Len(ret.value) :
            \A j \in 1..Len(ret.value[i].interpolated) : IdentifierOnly(ret.value[i].interpolated[j])

====
